---- MODULE Spec2Model ----
(***************************************************************************)
(* A model of the terminal dice roller: the per-die motion simulation      *)
(* (die.rs), the channel between the die threads and the table (lib.rs,    *)
(* throw), the resolution of a finished roll (table.rs) and the reading of  *)
(* a command line (main.rs, lib.rs input_handling).                        *)
(***************************************************************************)
EXTENDS Integers, Sequences, FiniteSets, TLC

VARIABLES
    input_line, \* the line main read last, with the commands it was typed from
    generated_dice, \* what generate_dice returned for that line, None before the call
    term,       \* terminal_size(): <<columns, rows>>
    dice,       \* id -> the Die owned by that id's thread, with the thread's position
    chan,       \* the mpsc channel: the messages sent and not yet received
    thrown,     \* the arguments of throw: code, dice, modifiers, command_log
    main,       \* where the thread that runs throw is
    tx,         \* whether throw still holds the Sender that channel() returned
    table,      \* the Table of this throw
    returned    \* what throw returned: None, or Some(one_liner) after 'r'

vars == <<input_line, generated_dice, term, dice, chan, thrown, main, tx, table, returned>>

\* what the die threads never touch
rest == <<input_line, generated_dice, term, thrown, main, tx, table, returned>>

----------------------------------------------------------------------------
(* Bounds of the model *)

Cols == 3               \* columns of the terminal
Rows == 3               \* rows of the terminal
SpeedSpan == 1          \* initial speeds explored: MIN_INIT_SPEED .. MIN_INIT_SPEED + SpeedSpan

\* The throw is explored in the smallest terminal, with rolls of these
\* coefficients and with dice that stop after these numbers of steps: a roll
\* of real length (6 to 120 steps per die) differs from these only in the
\* number of events in flight.
ThrowTerminal == <<3, 3>>
ThrowCoefficients == {1, 2}
ThrowStepCounts == {1, 2}

\* The resolution of a finished roll is explored for rolls of one or two
\* commands and at most MaxRolled dice, of these kinds and modifiers, in
\* a terminal that is large enough for the graph and in one that is not.
\* A special roll of a kind of FullFaceKinds is explored with every pair of
\* faces, the other rolls with the lowest and the two highest faces.
PercentileDraws == {10}
MaxRolled == 3
CommandCounts == {1, 2}
MathKinds == {"Six", "Twenty"}
MathModifiers == {-2, 0, 3}
FullFaceKinds == {"Six", "PercentTens", "PercentOnes"}
Terminals == {<<36, 24>>, <<35, 9>>}

----------------------------------------------------------------------------
(* Program constants *)

MIN_INIT_SPEED == 60
MAX_INIT_SPEED == 120
STOP_SPEED == 0
U16 == 65536
DISPLAY_RESULTS == 5

----------------------------------------------------------------------------
(* directions.rs *)

Direction == {"None", "Up", "Down", "Left", "Right",
              "UpLeft", "UpRight", "DownLeft", "DownRight"}

\* Direction::random(): gen_range(1..=8) never reaches the `_ => None` arm
\* Direction::random as it would be if the range drawn from began at 0
RandomDirectionFromZero == {"None", "Up", "Down", "Left", "Right",
                            "UpLeft", "UpRight", "DownLeft", "DownRight"}

RandomDirection == {"Up", "Down", "Left", "Right",
                    "UpLeft", "UpRight", "DownLeft", "DownRight"}

----------------------------------------------------------------------------
(* die.rs: enum D *)

D == {"Two", "Four", "Six", "Ten", "Twelve", "Twenty", "PercentTens", "PercentOnes"}

value(kind) ==
    CASE kind = "Two" -> 2
      [] kind = "Four" -> 4
      [] kind = "Six" -> 6
      [] kind = "Ten" -> 10
      [] kind = "Twelve" -> 12
      [] kind = "Twenty" -> 20
      [] kind = "PercentTens" -> 10
      [] kind = "PercentOnes" -> 10

\* acceleration as it would be if the slowest die lost no speed
acceleration_flat(kind) ==
    CASE kind = "Two" -> -10
      [] kind = "Four" -> -7
      [] kind = "Six" -> -4
      [] kind = "Ten" -> -3
      [] kind = "Twelve" -> -2
      [] kind = "Twenty" -> 0
      [] kind \in {"PercentTens", "PercentOnes"} -> -3

acceleration(kind) ==
    CASE kind = "Two" -> -10
      [] kind = "Four" -> -7
      [] kind = "Six" -> -4
      [] kind = "Ten" -> -3
      [] kind = "Twelve" -> -2
      [] kind = "Twenty" -> -1
      [] kind \in {"PercentTens", "PercentOnes"} -> -3

\* flip as it would be if the ones die of a percentile roll showed the number drawn
flip_unshifted(kind, v) ==
    CASE kind = "PercentTens" -> 10 * (v - 1)
      [] OTHER -> v

\* D::flip with the drawn number `v` of gen_range(1..=self.value())
flip(kind, v) ==
    CASE kind = "PercentTens" -> 10 * (v - 1)
      [] kind = "PercentOnes" -> v - 1
      [] OTHER -> v

\* util.rs
is_two_digits(face, kind) == face >= 10 \/ kind = "PercentTens"

terminal_centre(t) == <<t[1] \div 2, t[2] \div 2>>

----------------------------------------------------------------------------
(* Strings are sequences of one-character strings; Option and Result     *)
(* values are sequences too: <<>> is None, <<v>> is Some(v)               *)

None == <<>>
Some(v) == <<v>>

Digit == <<"0", "1", "2", "3", "4", "5", "6", "7", "8", "9">>

IsDigit(c) == \E i \in 1..10 : Digit[i] = c
DigitValue(c) == (CHOOSE i \in 1..10 : Digit[i] = c) - 1

RECURSIVE Decimal(_)
\* format!("{n}") of a number n >= 0
Decimal(n) ==
    IF n < 10 THEN <<Digit[n + 1]>> ELSE Append(Decimal(n \div 10), Digit[(n % 10) + 1])

\* format!("{n}") of a signed number
Signed(n) == IF n < 0 THEN <<"-">> \o Decimal(0 - n) ELSE Decimal(n)

RECURSIVE DigitsValue(_)
\* the number a non-empty string of digits denotes
DigitsValue(s) ==
    IF Len(s) = 1 THEN DigitValue(s[1])
    ELSE 10 * DigitsValue(SubSeq(s, 1, Len(s) - 1)) + DigitValue(s[Len(s)])

Contains(s, c) == \E i \in 1..Len(s) : s[i] = c

\* str::split(seps).next(): the piece before the first separator
Before(s, seps) ==
    IF \E i \in 1..Len(s) : s[i] \in seps
    THEN SubSeq(s, 1, (CHOOSE i \in 1..Len(s) :
                          s[i] \in seps /\ \A j \in 1..(i - 1) : s[j] \notin seps) - 1)
    ELSE s

\* str::split(c).last(): the piece after the last separator
After(s, c) ==
    IF Contains(s, c)
    THEN SubSeq(s, (CHOOSE i \in 1..Len(s) :
                       s[i] = c /\ \A j \in (i + 1)..Len(s) : s[j] # c) + 1, Len(s))
    ELSE s

RECURSIVE Trim(_)
\* str::trim
Trim(s) ==
    IF s = <<>> THEN s
    ELSE IF s[1] = " " THEN Trim(Tail(s))
    ELSE IF s[Len(s)] = " " THEN Trim(SubSeq(s, 1, Len(s) - 1))
    ELSE s

\* the number parsed, when it fits the type
Within(n, least, most) == IF n < least \/ n > most THEN None ELSE Some(n)

\* str::parse::<u16>() as an Option: an optional '+', then digits, at most 65535
parse_u16(s) ==
    LET body == IF s # <<>> /\ s[1] = "+" THEN Tail(s) ELSE s
    IN  IF body = <<>> \/ \E i \in 1..Len(body) : ~IsDigit(body[i]) THEN None
        ELSE IF Len(body) > 6 THEN None
        ELSE Within(DigitsValue(body), 0, 65535)

\* str::parse::<i16>() as an Option: an optional sign, then digits, in -32768..32767
parse_i16(s) ==
    LET negative == s # <<>> /\ s[1] = "-"
        body == IF s # <<>> /\ s[1] \in {"+", "-"} THEN Tail(s) ELSE s
    IN  IF body = <<>> \/ \E i \in 1..Len(body) : ~IsDigit(body[i]) THEN None
        ELSE IF Len(body) > 6 THEN None
        ELSE Within((IF negative THEN 0 - 1 ELSE 1) * DigitsValue(body), 0 - 32768, 32767)

----------------------------------------------------------------------------
(* lib.rs: input_handling *)

Code == {"Normal", "Advantage", "Disadvantage", "Percentile"}

\* as_number as it would be if it gave the number of faces of the die
as_number_of_faces(kind) == value(kind)

as_number(kind) ==
    CASE kind = "Two" -> 2
      [] kind = "Four" -> 4
      [] kind = "Six" -> 6
      [] kind = "Ten" -> 10
      [] kind = "Twelve" -> 12
      [] kind = "Twenty" -> 20
      [] kind \in {"PercentTens", "PercentOnes"} -> 100

\* the command string generate_dice logs for one command
log_command(coefficient, kind, modifier) ==
    Decimal(coefficient) \o <<"d">> \o Decimal(as_number(kind))
        \o (IF modifier > 0 THEN <<"+">> \o Signed(modifier)
            ELSE IF modifier < 0 THEN Signed(modifier)
            ELSE <<>>)

\* load_dice as it would be if an advantage roll loaded its die once
load_dice_once(code, coefficient, kind) ==
    CASE code = "Normal" -> [i \in 1..coefficient |-> kind]
      [] code \in {"Advantage", "Disadvantage"} -> <<kind>>
      [] code = "Percentile" -> <<"PercentTens", "PercentOnes">>

\* the dice generate_dice loads for one command
load_dice(code, coefficient, kind) ==
    CASE code = "Normal" -> [i \in 1..coefficient |-> kind]
      [] code \in {"Advantage", "Disadvantage"} -> <<kind, kind>>
      [] code = "Percentile" -> <<"PercentTens", "PercentOnes">>

RECURSIVE generated(_, _)
\* what generate_dice returns for a validated list of commands under `code`;
\* the field `commands` keeps the commands themselves for the properties, no
\* operation reads it
generated(code, commands) ==
    IF commands = <<>>
    THEN [code |-> code, dice |-> <<>>, modifiers |-> <<>>, command_log |-> <<>>,
          commands |-> <<>>]
    ELSE LET n == Len(commands)
             c == commands[n]
             before == generated(code, SubSeq(commands, 1, n - 1))
         IN  [code |-> code,
              dice |-> before.dice \o load_dice(code, c.coefficient, c.kind),
              modifiers |-> Append(before.modifiers, c.modifier),
              command_log |-> Append(before.command_log,
                                    log_command(c.coefficient, c.kind, c.modifier)),
              commands |-> commands]

\* the tail of get_coefficient: the piece before the 'd', 1 when it is empty
coefficient_of(coeff_str) ==
    IF coeff_str = <<>> THEN Some(1) ELSE parse_u16(Trim(coeff_str))

get_coefficient(input) ==
    IF ~Contains(input, "d") THEN None
    ELSE coefficient_of(Before(Trim(input), {"d"}))

\* the match of get_kind on the number after the 'd'
kind_numbered(n) ==
    IF n = None THEN None
    ELSE CASE n[1] = 2 -> Some("Two")
           [] n[1] = 4 -> Some("Four")
           [] n[1] = 6 -> Some("Six")
           [] n[1] = 10 -> Some("Ten")
           [] n[1] = 12 -> Some("Twelve")
           [] n[1] = 20 -> Some("Twenty")
           [] n[1] = 100 -> Some("PercentTens")
           [] OTHER -> None

\* the tail of get_kind: the piece after the 'd', trimmed
kind_of(d_str) ==
    IF d_str = <<"%">> THEN Some("PercentTens") ELSE kind_numbered(parse_u16(d_str))

get_kind(input) ==
    IF ~Contains(input, "d") THEN None
    ELSE kind_of(Trim(After(Before(input, {"+", "-"}), "d")))

\* the modifier after a '-': the number parsed, negated
negated(parsed) == IF parsed = None THEN None ELSE Some(0 - parsed[1])

get_modifier(input) ==
    IF Cardinality({i \in 1..Len(input) : input[i] \in {"+", "-"}}) > 1 THEN None
    ELSE IF Contains(input, "+") THEN parse_i16(Trim(After(input, "+")))
    ELSE IF Contains(input, "-") THEN negated(parse_i16(Trim(After(input, "-"))))
    ELSE Some(0)

\* the three values of a command together, when each of them was found
command_values(coefficient, kind, modifier) ==
    IF coefficient = None \/ kind = None \/ modifier = None THEN None
    ELSE Some([coefficient |-> coefficient[1], kind |-> kind[1], modifier |-> modifier[1]])

\* get_command_values: Ok(<<coefficient, kind, modifier>>) is Some of it, an
\* Err is None (the message is not modelled)
get_command_values(input) ==
    command_values(get_coefficient(input), get_kind(input), get_modifier(input))

\* the state of main before it has read a line
NoInput == [line |-> <<>>, typed |-> <<>>]

DIE_LIMIT == 99
COEFFICIENT_LIMIT == 99
MODIFIER_LIMIT == 99
ADV_PREFIX == <<"a", "d", "v">>
DISADV_PREFIX == <<"d", "i", "s", "a", "d", "v">>

\* char::to_lowercase on the letters a command line is typed with
lower(c) ==
    CASE c = "A" -> "a"
      [] c = "D" -> "d"
      [] c = "E" -> "e"
      [] c = "H" -> "h"
      [] c = "I" -> "i"
      [] c = "L" -> "l"
      [] c = "P" -> "p"
      [] c = "Q" -> "q"
      [] c = "S" -> "s"
      [] c = "T" -> "t"
      [] c = "U" -> "u"
      [] c = "V" -> "v"
      [] c = "X" -> "x"
      [] OTHER -> c

to_lowercase(s) == [i \in 1..Len(s) |-> lower(s[i])]

starts_with(s, prefix) == Len(s) >= Len(prefix) /\ SubSeq(s, 1, Len(prefix)) = prefix

strip_prefix(s, prefix) == SubSeq(s, Len(prefix) + 1, Len(s))

RECURSIVE split(_, _)
\* str::split(seps).collect(): the pieces between the separators, in order
split(s, seps) ==
    IF \E i \in 1..Len(s) : s[i] \in seps
    THEN <<Before(s, seps)>> \o split(SubSeq(s, Len(Before(s, seps)) + 2, Len(s)), seps)
    ELSE <<s>>

\* the Err of get_command_values: the first of the three values that is missing
command_error(coefficient, kind, modifier) ==
    IF coefficient = None THEN "Coefficient error"
    ELSE IF kind = None THEN "Die type error"
    ELSE "Modifier error"

\* validate without the check of the number of commands
validate_uncounted(code, coefficient, kind, modifier, command_count) ==
    IF coefficient = 0 THEN "Coefficient cannot be zero"
    ELSE IF coefficient > COEFFICIENT_LIMIT THEN "Coefficient limit exceeded"
    ELSE IF (IF modifier < 0 THEN 0 - modifier ELSE modifier) > MODIFIER_LIMIT
         THEN "Modifier limit exceeded"
    ELSE IF code # "Normal" /\ coefficient # 1
         THEN "You cannot have a coefficient on this roll"
    ELSE IF code \in {"Advantage", "Disadvantage"} /\ kind = "PercentTens"
         THEN "You cannot roll advantage/disadvantage on a d100"
    ELSE "Ok"

\* validate as it would be if it compared the modifier itself with the limit
validate_signed(code, coefficient, kind, modifier, command_count) ==
    IF coefficient = 0 THEN "Coefficient cannot be zero"
    ELSE IF coefficient > COEFFICIENT_LIMIT THEN "Coefficient limit exceeded"
    ELSE IF modifier > MODIFIER_LIMIT THEN "Modifier limit exceeded"
    ELSE IF code # "Normal" /\ coefficient # 1
         THEN "You cannot have a coefficient on this roll"
    ELSE IF code \in {"Advantage", "Disadvantage"} /\ kind = "PercentTens"
         THEN "You cannot roll advantage/disadvantage on a d100"
    ELSE IF code # "Normal" /\ command_count # 1
         THEN "You cannot throw extra die on advantage, disadvantage, and percentile rolls"
    ELSE "Ok"

\* validate: "Ok" for Ok(()), the message of the Err otherwise
validate(code, coefficient, kind, modifier, command_count) ==
    IF coefficient = 0 THEN "Coefficient cannot be zero"
    ELSE IF coefficient > COEFFICIENT_LIMIT THEN "Coefficient limit exceeded"
    ELSE IF (IF modifier < 0 THEN 0 - modifier ELSE modifier) > MODIFIER_LIMIT
         THEN "Modifier limit exceeded"
    ELSE IF code # "Normal" /\ coefficient # 1
         THEN "You cannot have a coefficient on this roll"
    ELSE IF code \in {"Advantage", "Disadvantage"} /\ kind = "PercentTens"
         THEN "You cannot roll advantage/disadvantage on a d100"
    ELSE IF code # "Normal" /\ command_count # 1
         THEN "You cannot throw extra die on advantage, disadvantage, and percentile rolls"
    ELSE "Ok"

\* the code after the prefix test of one command (lines 165-171)
prefix_code(code, command) ==
    IF starts_with(command, DISADV_PREFIX) THEN "Disadvantage"
    ELSE IF starts_with(command, ADV_PREFIX) THEN "Advantage"
    ELSE code

\* the command after the prefix test: the prefix stripped and the rest trimmed
unprefixed(command) ==
    IF starts_with(command, DISADV_PREFIX) THEN Trim(strip_prefix(command, DISADV_PREFIX))
    ELSE IF starts_with(command, ADV_PREFIX) THEN Trim(strip_prefix(command, ADV_PREFIX))
    ELSE command

\* lines 180-206 of the loop body: the command logged and its dice loaded
loaded(acc, code, v) ==
    [error |-> "", code |-> code,
     dice |-> acc.dice \o load_dice(code, v.coefficient, v.kind),
     modifiers |-> Append(acc.modifiers, v.modifier),
     command_log |-> Append(acc.command_log, log_command(v.coefficient, v.kind, v.modifier))]

\* lines 175-178 and on: the code a d100 sets, validate, then the loading
validated(acc, code, v, command_count) ==
    IF validate(code, v.coefficient, v.kind, v.modifier, command_count) # "Ok"
    THEN [acc EXCEPT !.error =
              validate(code, v.coefficient, v.kind, v.modifier, command_count)]
    ELSE loaded(acc, code, v)

\* line 174, the `?` of get_command_values
valued(acc, code, coefficient, kind, modifier, command_count) ==
    IF coefficient = None \/ kind = None \/ modifier = None
    THEN [acc EXCEPT !.error = command_error(coefficient, kind, modifier)]
    ELSE validated(acc, IF kind[1] = "PercentTens" THEN "Percentile" ELSE code,
                   [coefficient |-> coefficient[1], kind |-> kind[1],
                    modifier |-> modifier[1]], command_count)

\* one iteration of the loop of generate_dice over a trimmed command
one_command(acc, command, command_count) ==
    valued(acc, prefix_code(acc.code, command), get_coefficient(unprefixed(command)),
           get_kind(unprefixed(command)), get_modifier(unprefixed(command)), command_count)

RECURSIVE commands_from(_, _, _)
\* the loop of generate_dice from command k on, left at the first Err
commands_from(inputs, k, acc) ==
    IF k > Len(inputs) \/ acc.error # "" THEN acc
    ELSE commands_from(inputs, k + 1, one_command(acc, Trim(inputs[k]), Len(inputs)))

\* the end of generate_dice: the limit check and the value returned, an Err
\* carrying its message only
limited(acc) ==
    IF acc.error # "" THEN [ok |-> FALSE, error |-> acc.error]
    ELSE IF Len(acc.dice) > DIE_LIMIT THEN [ok |-> FALSE, error |-> "Cannot roll this many die"]
    ELSE [ok |-> TRUE, code |-> acc.code, dice |-> acc.dice, modifiers |-> acc.modifiers,
          command_log |-> acc.command_log]

generate_dice(line) ==
    limited(commands_from(split(to_lowercase(Trim(line)), {",", "/"}), 1,
                          [error |-> "", code |-> "Normal", dice |-> <<>>,
                           modifiers |-> <<>>, command_log |-> <<>>]))


----------------------------------------------------------------------------
(* table.rs *)

\* what the terminal shows: "clear" (nothing), "dice" (the faces where the
\* dice are), "graph" (the calculations over the dice) or "error"
Screen(view) == [view |-> view, label |-> "", rows |-> <<>>, final |-> None]

Table_new(args) ==
    [code |-> args.code, command_log |-> args.command_log, kinds |-> <<>>,
     tracker |-> <<>>, results |-> <<>>, modifiers |-> args.modifiers,
     graph_on |-> FALSE, error_on |-> FALSE, surface |-> Screen("clear")]

\* a map with key k set to v (HashMap::insert)
insert(map, k, v) == [x \in DOMAIN map \cup {k} |-> IF x = k THEN v ELSE map[x]]

log_kind(t, id, kind) == [t EXCEPT !.kinds = insert(t.kinds, id, kind)]

\* the column update and redraw write a face at (lines 67-73 and 99-105): one
\* column back from the position when the die is on the last column of the
\* terminal and its face takes two characters
draw_column(col, face, kind, size) ==
    IF col = size[1] /\ is_two_digits(face, kind) THEN col - 1 ELSE col

\* the characters written for a face (lines 82-85 and 108-111): the number,
\* and a second zero after the 0 of the die of id 0
face_text(id, face) ==
    Decimal(face) \o (IF face = 0 /\ id = 0 THEN <<"0">> ELSE <<>>)

\* a face as written on the terminal
written(id, face, position, kind, size) ==
    [col |-> draw_column(position[1], face, kind, size), row |-> position[2],
     text |-> face_text(id, face)]

\* the terminal showing the faces of the dice, each as it was last written
DiceScreen(faces) ==
    [view |-> "dice", label |-> "", rows |-> <<>>, final |-> None, faces |-> faces]

\* the faces a terminal shows
on_screen(surface) == IF surface.view = "dice" THEN surface.faces ELSE <<>>

\* update as it would be if it recorded the face without the position
update_untracked(t, id, face, new_position) ==
    [t EXCEPT !.results = insert(t.results, id, face),
              !.surface = DiceScreen(insert(on_screen(t.surface), id,
                                            written(id, face, new_position, t.kinds[id], term)))]

\* update as it would be if it kept the first entry of an id (entry().or_insert)
update_keeps_first(t, id, face, new_position) ==
    [t EXCEPT !.tracker = IF id \in DOMAIN t.tracker THEN t.tracker
                          ELSE insert(t.tracker, id, new_position),
              !.results = IF id \in DOMAIN t.results THEN t.results
                          ELSE insert(t.results, id, face),
              !.surface = Screen("dice")]

\* Table::update: the position and the face of the event replace what the
\* table held for that id, and the face is written over the one the terminal
\* showed for that id, in the terminal as it is at the time of the call
update(t, id, face, new_position) ==
    [t EXCEPT !.tracker = insert(t.tracker, id, new_position),
              !.results = insert(t.results, id, face),
              !.surface = DiceScreen(insert(on_screen(t.surface), id,
                                            written(id, face, new_position, t.kinds[id], term)))]

\* `n as i16`: the low 16 bits of n read as a signed number
as_i16(n) == IF n % U16 >= 32768 THEN (n % U16) - U16 ELSE n % U16

RECURSIVE Sum(_)
Sum(s) == IF s = <<>> THEN 0 ELSE Head(s) + Sum(Tail(s))

RECURSIVE InIdOrder(_)
\* the faces of a results map in ascending order of id (sort_by_key(|k| k.0))
InIdOrder(results) ==
    IF DOMAIN results = {} THEN <<>>
    ELSE LET first == CHOOSE id \in DOMAIN results : \A other \in DOMAIN results : id <= other
         IN  <<results[first]>>
                 \o InIdOrder([id \in DOMAIN results \ {first} |-> results[id]])

\* full_sum as it would be if it left the modifiers out
full_sum_of_faces(t) == Some(as_i16(Sum(InIdOrder(t.results)) % U16))

full_sum(t) ==
    Some(as_i16(as_i16(Sum(InIdOrder(t.results)) % U16) + as_i16(Sum(t.modifiers))))

\* advantage as it would be if it took the face of the die that was thrown first
advantage_of_first(t) ==
    IF Cardinality(DOMAIN t.results) > 2 THEN None
    ELSE IF DOMAIN t.results = {} THEN None
    ELSE Some(Head(InIdOrder(t.results)))

advantage(t) ==
    IF Cardinality(DOMAIN t.results) > 2 THEN None
    ELSE IF DOMAIN t.results = {} THEN None
    ELSE Some(CHOOSE m \in {t.results[id] : id \in DOMAIN t.results} :
                 \A id \in DOMAIN t.results : m >= t.results[id])

disadvantage(t) ==
    IF Cardinality(DOMAIN t.results) > 2 THEN None
    ELSE IF DOMAIN t.results = {} THEN None
    ELSE Some(CHOOSE m \in {t.results[id] : id \in DOMAIN t.results} :
                 \A id \in DOMAIN t.results : m <= t.results[id])

\* percent_sum as it would be without the caveat for two zeros
percent_sum_plain(t) ==
    IF Cardinality(DOMAIN t.results) > 2 THEN None
    ELSE Some(Sum(InIdOrder(t.results)) % U16)

percent_sum(t) ==
    IF Cardinality(DOMAIN t.results) > 2 THEN None
    ELSE IF Sum(InIdOrder(t.results)) % U16 = 0 THEN Some(100)
    ELSE Some(Sum(InIdOrder(t.results)) % U16)

\* a result with the colour show_math and do_math embed in it: the escape
\* sequences of a colour are one element of the string
result_format(result, colour) ==
    IF colour = "Reset" THEN Decimal(result)
    ELSE <<colour>> \o Decimal(result) \o <<"Reset">>

\* crit as it would be if a 1 were red on a die of any kind
crit_any_one(result, kind) ==
    IF result = 20 /\ kind = "Twenty" THEN "Green"
    ELSE IF result = 1 THEN "Red"
    ELSE "Reset"

\* the colour of a result of a Normal roll
crit(result, kind) ==
    IF result = 20 /\ kind = "Twenty" THEN "Green"
    ELSE IF result = 1 /\ kind = "Twenty" THEN "Red"
    ELSE "Reset"

\* the colour of a result of a roll with advantage or disadvantage
crit_selected(result, kind, selected) ==
    IF result = 20 /\ selected = 20 /\ kind = "Twenty" THEN "Green"
    ELSE IF result = 1 /\ selected = 1 /\ kind = "Twenty" THEN "Red"
    ELSE "Reset"

\* the tens die shows "00" for a zero (the first line of a Percentile roll)
percent_format(result, line) ==
    IF line = 0 /\ result = 0 THEN Append(Decimal(result), "0") ELSE Decimal(result)

abs(n) == IF n < 0 THEN 0 - n ELSE n

\* print_totals as it would be if it added the modifier it prints after the sign
print_totals_unsigned(total, modifier) ==
    [total |-> total, sign |-> IF modifier >= 0 THEN "+" ELSE "-",
     modifier |-> abs(modifier), sum |-> as_i16(as_i16(total) + abs(modifier))]

\* graph.rs, Graph::print_totals: the total/modifier/sum line of a command
print_totals(total, modifier) ==
    [total |-> total, sign |-> IF modifier >= 0 THEN "+" ELSE "-",
     modifier |-> abs(modifier), sum |-> as_i16(as_i16(total) + modifier)]

\* the part of the graph show_math draws for one command
graph_row(command, formats, total, modifier) ==
    [command |-> command, results |-> formats, totals |-> print_totals(total, modifier)]

\* `get_command_values(self.command_log.iter().next().unwrap()).unwrap()`:
\* None is a panic
first_command_values(t) ==
    IF t.command_log = <<>> THEN None ELSE get_command_values(Head(t.command_log))

\* the die show_math and do_math select under Advantage or Disadvantage
selected_die(t) == IF t.code = "Advantage" THEN advantage(t) ELSE disadvantage(t)

\* the results of a roll with advantage or disadvantage, coloured
selected_formats(results, kind, selected) ==
    [line \in 1..Len(results) |->
        result_format(results[line], crit_selected(results[line], kind, selected))]

\* the results of a Percentile roll as they are shown
percent_formats(results) ==
    [line \in 1..Len(results) |-> percent_format(results[line], line - 1)]

\* the results of one command of a Normal roll, coloured
normal_formats(drained, kind) ==
    [line \in 1..Len(drained) |-> result_format(drained[line], crit(drained[line], kind))]

\* show_math, Code::Advantage | Code::Disadvantage, with the values of the
\* command and the selected die: None is a panic
selected_graph(t, label, results, values, selected) ==
    IF values = None THEN None              \* unwrap() of None or of an Err
    ELSE IF selected = None THEN None       \* expect() of None
    ELSE Some([view |-> "graph", label |-> label,
               rows |-> <<graph_row(Head(t.command_log),
                             selected_formats(results, values[1].kind, selected[1]),
                             selected[1], values[1].modifier)>>,
               final |-> None])

\* show_math, Code::Percentile, with the values of the command and the sum:
\* None is a panic
percentile_graph(t, results, values, sum) ==
    IF values = None THEN None
    ELSE IF sum = None THEN None
    ELSE Some([view |-> "graph", label |-> "Percentile roll",
               rows |-> <<graph_row(Head(t.command_log), percent_formats(results),
                             sum[1], values[1].modifier)>>,
               final |-> None])

RECURSIVE normal_rows(_, _)
\* one pass of the loop of show_math over the commands of a Normal roll, with
\* the values of the command and the rows of the commands after it
normal_row(command, results, values, below) ==
    IF below = None THEN None
    ELSE Some(<<graph_row(command,
                   normal_formats(SubSeq(results, 1, values.coefficient), values.kind),
                   Sum(SubSeq(results, 1, values.coefficient)) % U16, values.modifier)>>
              \o below[1])

\* the commands after one whose values were found, if its results can be drained
normal_rows_after(command_log, results, values) ==
    IF values = None THEN None
    ELSE IF values[1].coefficient > Len(results) THEN None      \* drain(..coefficient)
    ELSE normal_row(Head(command_log), results, values[1],
             normal_rows(Tail(command_log),
                 SubSeq(results, values[1].coefficient + 1, Len(results))))

\* show_math, Code::Normal: the rows of the commands, each draining its
\* coefficient results from the front of what is left; None is a panic
normal_rows(command_log, results) ==
    IF command_log = <<>> THEN Some(<<>>)
    ELSE normal_rows_after(command_log, results, get_command_values(Head(command_log)))

normal_graph(final_sum, rows) ==
    IF rows = None THEN None
    ELSE Some([view |-> "graph", label |-> "Normal roll", rows |-> rows[1],
               final |-> final_sum])

\* what show_math draws for the results in id order: None is a panic
graph_of(t, results) ==
    CASE t.code \in {"Advantage", "Disadvantage"} ->
            selected_graph(t, IF t.code = "Advantage" THEN "Advantage roll"
                              ELSE "Disadvantage roll",
                           results, first_command_values(t), selected_die(t))
      [] t.code = "Percentile" ->
            percentile_graph(t, results, first_command_values(t), percent_sum(t))
      [] t.code = "Normal" -> normal_graph(full_sum(t), normal_rows(t.command_log, results))

\* the end of show_math, with what it drew
math_shown(t, graph) ==
    IF graph = None THEN [result |-> "panic", table |-> t]
    ELSE [result |-> "Ok",
          table |-> [t EXCEPT !.graph_on = TRUE, !.error_on = FALSE, !.surface = graph[1]]]

\* show_math as it would be if it asked for one spare row and no spare column
show_math_spare_row(t, size) ==
    LET height == (Cardinality(DOMAIN t.results) + Len(t.command_log) + 7) % U16
        width == 34
    IN  IF size[2] <= height \/ size[1] < width
        THEN [result |-> "Err", table |-> t]
        ELSE math_shown(t, graph_of(t, InIdOrder(t.results)))

\* Table::show_math in a terminal of the given size: its result ("Ok", "Err",
\* or "panic" when it does not return) and the table it leaves
show_math(t, size) ==
    LET height == (Cardinality(DOMAIN t.results) + Len(t.command_log) + 7) % U16
        width == 34
    IN  IF size[2] < height \/ size[1] < width + 2
        THEN [result |-> "Err", table |-> t]
        ELSE math_shown(t, graph_of(t, InIdOrder(t.results)))

\* " + m" or " - |m|"
signed_term(modifier) ==
    IF modifier >= 0 THEN <<" ", "+", " ">> \o Decimal(modifier)
    ELSE <<" ", "-", " ">> \o Decimal(abs(modifier))

\* the end of the one-liner of a special roll: " => s + m = sum"
one_liner_end(selected, modifier) ==
    <<" ", "=", ">", " ">> \o Decimal(selected) \o signed_term(modifier)
        \o <<" ", "=", " ">> \o Signed(as_i16(as_i16(selected) + modifier))

RECURSIVE listed(_, _, _)
\* the results do_math lists for two dice: the first, then the second after
\* the separator, and no other
listed(formats, separator, line) ==
    IF line >= Len(formats) THEN <<>>
    ELSE (CASE line = 0 -> formats[line + 1]
            [] line = 1 -> separator \o formats[line + 1]
            [] OTHER -> <<>>)
         \o listed(formats, separator, line + 1)

\* do_math, Code::Advantage | Code::Disadvantage: None is a panic
selected_one_liner(results, values, selected) ==
    IF values = None THEN None
    ELSE IF selected = None THEN None
    ELSE Some(listed(selected_formats(results, values[1].kind, selected[1]),
                     <<" ", "|", " ">>, 0)
              \o one_liner_end(selected[1], values[1].modifier))

\* do_math, Code::Percentile: None is a panic
percentile_one_liner(results, values, sum) ==
    IF values = None THEN None
    ELSE IF sum = None THEN None
    ELSE Some(listed(percent_formats(results), <<",", " ">>, 0)
              \o one_liner_end(sum[1], values[1].modifier))

RECURSIVE listed_normal_short(_, _, _)
\* listed_normal as it would be if the ellipsis came as soon as the command
\* had more than DISPLAY_RESULTS dice
listed_normal_short(formats, coefficient, line) ==
    IF line >= Len(formats) THEN <<>>
    ELSE (CASE line = 0 -> formats[line + 1]
            [] line \in 1..DISPLAY_RESULTS ->
                 IF line = DISPLAY_RESULTS /\ coefficient > DISPLAY_RESULTS
                 THEN <<" ", "+", " ", ".", ".", ".">>
                 ELSE <<" ", "+", " ">> \o formats[line + 1]
            [] OTHER -> <<>>)
         \o listed_normal_short(formats, coefficient, line + 1)

RECURSIVE listed_normal(_, _, _)
\* the results do_math lists for the only command of a Normal roll: up to
\* DISPLAY_RESULTS + 1 of them, or DISPLAY_RESULTS and an ellipsis
listed_normal(formats, coefficient, line) ==
    IF line >= Len(formats) THEN <<>>
    ELSE (CASE line = 0 -> formats[line + 1]
            [] line \in 1..DISPLAY_RESULTS ->
                 IF line = DISPLAY_RESULTS /\ coefficient > DISPLAY_RESULTS + 1
                 THEN <<" ", "+", " ", ".", ".", ".">>
                 ELSE <<" ", "+", " ">> \o formats[line + 1]
            [] OTHER -> <<>>)
         \o listed_normal(formats, coefficient, line + 1)

\* what do_math pushes for the only command of a Normal roll: the results,
\* then " + m = running_total + m = "
only_command(drained, values) ==
    listed_normal(normal_formats(drained, values.kind), values.coefficient, 0)
        \o signed_term(values.modifier) \o <<" ", "=", " ">>
        \o Decimal(Sum(drained) % U16) \o signed_term(values.modifier)
        \o <<" ", "=", " ">>

RECURSIVE normal_one_liner(_, _, _)
\* one pass of the loop of do_math over the commands of a Normal roll, with
\* the values of the command and what the commands after it push
normal_pushed(results, single, values, after) ==
    IF after = None THEN None
    ELSE Some((IF single THEN only_command(SubSeq(results, 1, values.coefficient), values)
               ELSE <<>>)
              \o after[1])

\* the commands after one whose values were found, if its results can be drained
normal_one_liner_after(command_log, results, single, values) ==
    IF values = None THEN None
    ELSE IF values[1].coefficient > Len(results) THEN None      \* drain(..coefficient)
    ELSE normal_pushed(results, single, values[1],
             normal_one_liner(Tail(command_log),
                 SubSeq(results, values[1].coefficient + 1, Len(results)), single))

\* do_math, Code::Normal, the loop over the commands: None is a panic
normal_one_liner(command_log, results, single) ==
    IF command_log = <<>> THEN Some(<<>>)
    ELSE normal_one_liner_after(command_log, results, single,
                                get_command_values(Head(command_log)))

\* the end of do_math for a Normal roll: the final sum after the commands
normal_end(commands, final_sum) ==
    IF commands = None THEN None ELSE Some(commands[1] \o Signed(final_sum[1]))

\* what do_math returns for the results in id order: None is a panic
one_liner_of(t, results) ==
    CASE t.code \in {"Advantage", "Disadvantage"} ->
            selected_one_liner(results, first_command_values(t), selected_die(t))
      [] t.code = "Percentile" ->
            percentile_one_liner(results, first_command_values(t), percent_sum(t))
      [] t.code = "Normal" ->
            normal_end(normal_one_liner(t.command_log, results, Len(t.command_log) = 1),
                       full_sum(t))

\* Table::do_math: Some(one_liner), or None when it panics
do_math(t) == one_liner_of(t, InIdOrder(t.results))

\* redraw as it would be if it left graph_on and error_on as they were
redraw_keeping_flags(t) ==
    IF \E id \in DOMAIN t.results : id \notin DOMAIN t.tracker \/ id \notin DOMAIN t.kinds
    THEN None
    ELSE Some([t EXCEPT !.surface = Screen("dice")])

\* Table::redraw with the crit_colour that ends it: Some(table), or None
\* when a die of the results has no position or no kind, or a d20 has no
\* position or no result (expect() and unwrap() of None)
redraw(t) ==
    IF \/ \E id \in DOMAIN t.results : id \notin DOMAIN t.tracker \/ id \notin DOMAIN t.kinds
       \/ \E id \in DOMAIN t.kinds :
             t.kinds[id] = "Twenty" /\ (id \notin DOMAIN t.tracker \/ id \notin DOMAIN t.results)
    THEN None
    ELSE Some([t EXCEPT !.graph_on = FALSE, !.error_on = FALSE,
                        !.surface = DiceScreen([id \in DOMAIN t.results |->
                                                  written(id, t.results[id], t.tracker[id],
                                                          t.kinds[id], term)])])

\* print_error as it would be if it dropped the results it could not show
print_error_clearing(t) ==
    [t EXCEPT !.results = <<>>, !.graph_on = FALSE, !.error_on = TRUE,
              !.surface = Screen("error")]

print_error(t) ==
    [t EXCEPT !.graph_on = FALSE, !.error_on = TRUE, !.surface = Screen("error")]

----------------------------------------------------------------------------
(* die.rs: impl Die *)

\* the positions spawn_point can return in a terminal of size t
spawn_point(t) ==
    LET h_radius == t[1] \div 8
        v_radius == t[2] \div 8
        centre == terminal_centre(t)
    IN  ((centre[1] - h_radius)..(centre[1] + h_radius))
            \X ((centre[2] - v_radius)..(centre[2] + v_radius))

\* will_collide as it would be if a wall only stopped a die heading straight at it
will_collide_straight(direction, surface) ==
    CASE surface = "None" -> FALSE
      [] surface \in {"Up", "Down", "Left", "Right"} -> direction = surface
      [] surface = "UpLeft" -> direction \notin {"Down", "Right", "DownRight"}
      [] surface = "UpRight" -> direction \notin {"Down", "Left", "DownLeft"}
      [] surface = "DownLeft" -> direction \notin {"Up", "Right", "UpRight"}
      [] surface = "DownRight" -> direction \notin {"Up", "Left", "UpLeft"}

\* will_collide as it would be if a corner only stopped a die heading along
\* the diagonal into it
will_collide_corner_exact(direction, surface) ==
    CASE surface = "None" -> FALSE
      [] surface = "Up" -> direction \in {"Up", "UpLeft", "UpRight"}
      [] surface = "Down" -> direction \in {"Down", "DownLeft", "DownRight"}
      [] surface = "Left" -> direction \in {"Left", "UpLeft", "DownLeft"}
      [] surface = "Right" -> direction \in {"Right", "UpRight", "DownRight"}
      [] surface \in {"UpLeft", "UpRight", "DownLeft", "DownRight"} -> direction = surface

will_collide(direction, surface) ==
    CASE surface = "None" -> FALSE
      [] surface = "Up" -> direction \in {"Up", "UpLeft", "UpRight"}
      [] surface = "Down" -> direction \in {"Down", "DownLeft", "DownRight"}
      [] surface = "Left" -> direction \in {"Left", "UpLeft", "DownLeft"}
      [] surface = "Right" -> direction \in {"Right", "UpRight", "DownRight"}
      [] surface = "UpLeft" -> direction \notin {"Down", "Right", "DownRight"}
      [] surface = "UpRight" -> direction \notin {"Down", "Left", "DownLeft"}
      [] surface = "DownLeft" -> direction \notin {"Up", "Right", "UpRight"}
      [] surface = "DownRight" -> direction \notin {"Up", "Left", "UpLeft"}

\* bounce as it would be if a redirected die heading up or left kept heading
\* into the wall
bounce_unreversed(direction, wall, redirect, option) ==
    CASE direction = "Up" ->
            IF ~redirect THEN "Down" ELSE IF ~option THEN "UpLeft" ELSE "UpRight"
      [] direction = "Down" ->
            IF ~redirect THEN "Up" ELSE IF ~option THEN "UpLeft" ELSE "UpRight"
      [] direction = "Left" ->
            IF ~redirect THEN "Right" ELSE IF ~option THEN "UpLeft" ELSE "DownLeft"
      [] direction = "Right" ->
            IF ~redirect THEN "Left" ELSE IF ~option THEN "UpLeft" ELSE "DownLeft"
      [] direction = "UpLeft" ->
            IF ~wall /\ ~redirect THEN "DownLeft"
            ELSE IF wall /\ ~redirect THEN "UpRight"
            ELSE IF ~wall /\ redirect THEN "Down" ELSE "Right"
      [] direction = "UpRight" ->
            IF ~wall /\ ~redirect THEN "DownRight"
            ELSE IF wall /\ ~redirect THEN "UpLeft"
            ELSE IF ~wall /\ redirect THEN "Down" ELSE "Left"
      [] direction = "DownLeft" ->
            IF ~wall /\ ~redirect THEN "UpLeft"
            ELSE IF wall /\ ~redirect THEN "DownRight"
            ELSE IF ~wall /\ redirect THEN "Up" ELSE "Right"
      [] direction = "DownRight" ->
            IF ~wall /\ ~redirect THEN "UpRight"
            ELSE IF wall /\ ~redirect THEN "DownLeft"
            ELSE IF ~wall /\ redirect THEN "Up" ELSE "Left"
      [] direction = "None" -> "None"

\* bounce as it would be if a die heading up-left bounced off a single wall
\* as it does off a corner
bounce_as_corner(direction, wall, redirect, option) ==
    CASE direction = "Up" ->
            IF ~redirect THEN "Down" ELSE IF ~option THEN "DownLeft" ELSE "DownRight"
      [] direction = "Down" ->
            IF ~redirect THEN "Up" ELSE IF ~option THEN "UpLeft" ELSE "UpRight"
      [] direction = "Left" ->
            IF ~redirect THEN "Right" ELSE IF ~option THEN "UpRight" ELSE "DownRight"
      [] direction = "Right" ->
            IF ~redirect THEN "Left" ELSE IF ~option THEN "UpLeft" ELSE "DownLeft"
      [] direction = "UpLeft" ->
            IF ~wall /\ ~redirect THEN "DownRight"
            ELSE IF wall /\ ~redirect THEN "DownRight"
            ELSE IF ~wall /\ redirect THEN "Down" ELSE "Right"
      [] direction = "UpRight" ->
            IF ~wall /\ ~redirect THEN "DownRight"
            ELSE IF wall /\ ~redirect THEN "UpLeft"
            ELSE IF ~wall /\ redirect THEN "Down" ELSE "Left"
      [] direction = "DownLeft" ->
            IF ~wall /\ ~redirect THEN "UpLeft"
            ELSE IF wall /\ ~redirect THEN "DownRight"
            ELSE IF ~wall /\ redirect THEN "Up" ELSE "Right"
      [] direction = "DownRight" ->
            IF ~wall /\ ~redirect THEN "UpRight"
            ELSE IF wall /\ ~redirect THEN "DownLeft"
            ELSE IF ~wall /\ redirect THEN "Up" ELSE "Left"
      [] direction = "None" -> "None"

\* Die::bounce with the two coin tosses it draws
bounce(direction, wall, redirect, option) ==
    CASE direction = "Up" ->
            IF ~redirect THEN "Down" ELSE IF ~option THEN "DownLeft" ELSE "DownRight"
      [] direction = "Down" ->
            IF ~redirect THEN "Up" ELSE IF ~option THEN "UpLeft" ELSE "UpRight"
      [] direction = "Left" ->
            IF ~redirect THEN "Right" ELSE IF ~option THEN "UpRight" ELSE "DownRight"
      [] direction = "Right" ->
            IF ~redirect THEN "Left" ELSE IF ~option THEN "UpLeft" ELSE "DownLeft"
      [] direction = "UpLeft" ->
            IF ~wall /\ ~redirect THEN "DownLeft"
            ELSE IF wall /\ ~redirect THEN "UpRight"
            ELSE IF ~wall /\ redirect THEN "Down" ELSE "Right"
      [] direction = "UpRight" ->
            IF ~wall /\ ~redirect THEN "DownRight"
            ELSE IF wall /\ ~redirect THEN "UpLeft"
            ELSE IF ~wall /\ redirect THEN "Down" ELSE "Left"
      [] direction = "DownLeft" ->
            IF ~wall /\ ~redirect THEN "UpLeft"
            ELSE IF wall /\ ~redirect THEN "DownRight"
            ELSE IF ~wall /\ redirect THEN "Up" ELSE "Right"
      [] direction = "DownRight" ->
            IF ~wall /\ ~redirect THEN "UpRight"
            ELSE IF wall /\ ~redirect THEN "DownLeft"
            ELSE IF ~wall /\ redirect THEN "Up" ELSE "Left"
      [] direction = "None" -> "None"

\* the right wall detect_wall uses: one column short for a two-digit face
r_wall(d, t) == IF is_two_digits(d.face_up, d.kind) THEN (t[1] - 1) % U16 ELSE t[1]

\* the match arm of detect_wall that the die's position selects (first match wins)
wall_zone(d, t) ==
    LET c == d.position[1]
        r == d.position[2]
        l_wall == 1
        ceiling == 1
        floor == t[2]
    IN  CASE c <= l_wall /\ r <= ceiling -> "UpLeft"
          [] c >= r_wall(d, t) /\ r <= ceiling -> "UpRight"
          [] c <= l_wall /\ r >= floor -> "DownLeft"
          [] c >= r_wall(d, t) /\ r >= floor -> "DownRight"
          [] c <= l_wall -> "Left"
          [] c >= r_wall(d, t) -> "Right"
          [] r >= floor -> "Down"
          [] r <= ceiling -> "Up"
          [] OTHER -> "None"

\* corner_bounce with the top-right arm copied from the top-left one
corner_bounce_copied(zone) ==
    CASE zone = "UpLeft" -> "DownRight"
      [] zone = "UpRight" -> "DownRight"
      [] zone = "DownLeft" -> "UpRight"
      [] zone = "DownRight" -> "UpLeft"

\* the direction the corner arms of detect_wall assign
corner_bounce(zone) ==
    CASE zone = "UpLeft" -> "DownRight"
      [] zone = "UpRight" -> "DownLeft"
      [] zone = "DownLeft" -> "UpRight"
      [] zone = "DownRight" -> "UpLeft"

\* detect_wall as it would be if it did not ask will_collide
detect_wall_unasked(d, t, redirect, option) ==
    LET zone == wall_zone(d, t)
    IN  IF zone = "None" THEN [d EXCEPT !.hit = "None", !.was = "None"]
        ELSE IF zone \in {"UpLeft", "UpRight", "DownLeft", "DownRight"}
             THEN [d EXCEPT !.direction = corner_bounce(zone), !.hit = zone,
                            !.was = d.direction]
             ELSE [d EXCEPT !.direction =
                        bounce(d.direction, zone \in {"Left", "Right"}, redirect, option),
                            !.hit = zone, !.was = d.direction]

\* Die::detect_wall: the die after the collision check. `hit` records the
\* surface of the collision this call detected and `was` the direction the
\* die had when it detected it (both "None" when it detected none).
detect_wall(d, t, redirect, option) ==
    LET zone == wall_zone(d, t)
    IN  IF ~will_collide(d.direction, zone) THEN [d EXCEPT !.hit = "None", !.was = "None"]
        ELSE IF zone \in {"UpLeft", "UpRight", "DownLeft", "DownRight"}
             THEN [d EXCEPT !.direction = corner_bounce(zone), !.hit = zone,
                            !.was = d.direction]
             ELSE [d EXCEPT !.direction =
                        bounce(d.direction, zone \in {"Left", "Right"}, redirect, option),
                            !.hit = zone, !.was = d.direction]

\* the column and row change of one move
delta(direction) ==
    CASE direction = "None" -> <<0, 0>>
      [] direction = "Up" -> <<0, -1>>
      [] direction = "Down" -> <<0, 1>>
      [] direction = "Left" -> <<-1, 0>>
      [] direction = "Right" -> <<1, 0>>
      [] direction = "UpLeft" -> <<-1, -1>>
      [] direction = "UpRight" -> <<1, -1>>
      [] direction = "DownLeft" -> <<-1, 1>>
      [] direction = "DownRight" -> <<1, 1>>

\* whether the u16 arithmetic of movement leaves 0..65535
move_overflows(d) ==
    \E k \in 1..2 : d.position[k] + delta(d.direction)[k] \notin 0..(U16 - 1)

\* Die::movement, with the wrapping arithmetic of a release build
movement(d) ==
    [d EXCEPT !.position = <<(d.position[1] + delta(d.direction)[1]) % U16,
                             (d.position[2] + delta(d.direction)[2]) % U16>>]

\* friction as it would be if it were applied twice in a step
friction_twice(d) == [d EXCEPT !.speed = d.speed + 2 * acceleration(d.kind)]

friction(d) == [d EXCEPT !.speed = d.speed + acceleration(d.kind)]

\* what the cast of an infinite quotient to u64 gives: u64::MAX, which is
\* beyond the integers of the checker and is stood for by their largest
SATURATED == 2147483647

\* flip_time as it would be with the delay of the slowest step for every speed
flip_time_slowest(d) == 1000

\* Die::flip_time: (1000.0 / self.speed as f64) as u64; the quotient of a
\* positive speed is truncated, that of speed 0 is infinite and the cast
\* saturates, that of a negative speed is negative and the cast gives 0
flip_time(d) ==
    IF d.speed > 0 THEN 1000 \div d.speed
    ELSE IF d.speed = 0 THEN SATURATED
    ELSE 0

\* the message Die::roll sends
event(id, d) == <<id, d.face_up, d.position>>

InitSpeeds ==
    {s \in MIN_INIT_SPEED..MAX_INIT_SPEED : s <= MIN_INIT_SPEED + SpeedSpan}

\* a thread that has been spawned and has not yet run Die::new
Spawned(kind) ==
    [kind |-> kind, face_up |-> 0, position |-> <<0, 0>>, speed |-> 0,
     direction |-> "None", hit |-> "None", was |-> "None", slept |-> 0,
     pc |-> "new"]

\* the speeds the explored throw starts its dice with: those that leave a die
\* of this kind as many steps as ThrowStepCounts says before it stops
ShortSpeeds(kind) == {n * (0 - acceleration(kind)) : n \in ThrowStepCounts}

\* the numbers explored for gen_range(1..=self.value()): all of them, except
\* in a Percentile throw, where they are those of PercentileDraws
gen_range(kind) ==
    IF thrown.code = "Percentile" THEN (1..value(kind)) \cap PercentileDraws
    ELSE 1..value(kind)

\* Die::new in thread `id`, drawing the speed from `speeds`
DieNew(id, speeds) ==
    /\ dice[id].pc = "new"
    /\ \E v \in gen_range(dice[id].kind), p \in spawn_point(term),
          s \in speeds, dir \in RandomDirection :
          dice' = [dice EXCEPT ![id] =
                      [kind |-> dice[id].kind, face_up |-> flip(dice[id].kind, v),
                       position |-> p, speed |-> s, direction |-> dir,
                       hit |-> "None", was |-> "None", slept |-> 0,
                       pc |-> "roll"]]
    /\ UNCHANGED <<rest, chan>>

\* sent as it would be if the message were lost
sent_nowhere(q, msg, keep) == q

\* what the channel holds after a send: the throw keeps the whole queue, the
\* single-die specification only the latest message, and the specification
\* of the full speeds the id of every message, without its face and position
sent(q, msg, keep) ==
    CASE keep = "queue" -> Append(q, msg)
      [] keep = "latest" -> <<msg>>
      [] keep = "ids" -> Append(q, <<msg[1]>>)

\* whether detect_wall reaches bounce, which is where the two coins are tossed
bounces(d, t) ==
    /\ wall_zone(d, t) \in {"Left", "Right", "Down", "Up"}
    /\ will_collide(d.direction, wall_zone(d, t))

\* the outcomes of a gen_bool: drawn only when bounce is called
Toss(called) == IF called THEN BOOLEAN ELSE {FALSE}

\* RollStep as it would be if the message were sent before the die moved
RollStepSendFirst(id, keep) ==
    /\ dice[id].pc = "roll"
    /\ dice[id].speed > STOP_SPEED
    /\ \E v \in gen_range(dice[id].kind) :
       \E flipped \in {[dice[id] EXCEPT !.face_up = flip(dice[id].kind, v)]} :
       \E called \in {bounces(flipped, term)} :
       \E redirect \in Toss(called), option \in Toss(called) :
       \E checked \in {detect_wall(flipped, term, redirect, option)} :
          /\ dice' = [dice EXCEPT ![id] = [movement(checked) EXCEPT !.pc = "sleep"]]
          /\ chan' = sent(chan, event(id, checked), keep)
    /\ UNCHANGED rest

\* one iteration of Die::roll up to the send (lines 51-56): flip, detect_wall,
\* movement, send
RollStep(id, keep) ==
    /\ dice[id].pc = "roll"
    /\ dice[id].speed > STOP_SPEED
    /\ \E v \in gen_range(dice[id].kind) :
       \E flipped \in {[dice[id] EXCEPT !.face_up = flip(dice[id].kind, v)]} :
       \E called \in {bounces(flipped, term)} :
       \E redirect \in Toss(called), option \in Toss(called) :
       \E checked \in {detect_wall(flipped, term, redirect, option)} :
          \/ \E moved \in {movement(checked)} :
                /\ dice' = [dice EXCEPT ![id] = [moved EXCEPT !.pc = "sleep"]]
                /\ chan' = sent(chan, event(id, moved), keep)
          \/ /\ move_overflows(checked)      \* a debug build panics on the overflow
             /\ dice' = [dice EXCEPT ![id] = [checked EXCEPT !.pc = "panicked"]]
             /\ chan' = chan
    /\ UNCHANGED rest

\* thread::sleep(Duration::from_millis(self.flip_time())) (line 57): `slept`
\* is the length of this suspension in milliseconds, until the friction that
\* follows it; the record of the collision of this iteration is dropped when
\* the sleep ends
Sleep(id) ==
    /\ dice[id].pc = "sleep"
    /\ dice' = [dice EXCEPT ![id] = [dice[id] EXCEPT !.hit = "None", !.was = "None",
                                                      !.slept = flip_time(dice[id]),
                                                      !.pc = "friction"]]
    /\ UNCHANGED <<rest, chan>>

\* Friction as it would be if the dice slowed each other down
FrictionOfAll(id) ==
    /\ dice[id].pc = "friction"
    /\ dice' = [j \in DOMAIN dice |->
                  IF j = id THEN [friction(dice[id]) EXCEPT !.slept = 0, !.pc = "roll"]
                  ELSE IF dice[j].pc = "new" THEN dice[j]
                  ELSE friction(dice[j])]
    /\ UNCHANGED <<rest, chan>>

\* self.friction() (line 58)
Friction(id) ==
    /\ dice[id].pc = "friction"
    /\ dice' = [dice EXCEPT ![id] = [friction(dice[id]) EXCEPT !.slept = 0, !.pc = "roll"]]
    /\ UNCHANGED <<rest, chan>>

\* the while condition fails: roll returns, the thread ends and drops its Sender
RollExit(id) ==
    /\ dice[id].pc = "roll"
    /\ dice[id].speed <= STOP_SPEED
    /\ dice' = [dice EXCEPT ![id].pc = "done"]
    /\ UNCHANGED <<rest, chan>>

----------------------------------------------------------------------------
(* One die rolling in a fixed terminal *)

InitDie ==
    /\ term = <<Cols, Rows>>
    /\ \E k \in D :
          /\ dice = [id \in {0} |-> Spawned(k)]
          /\ thrown = generated("Normal", <<[coefficient |-> 1, kind |-> k, modifier |-> 0]>>)
          /\ table = [Table_new(thrown) EXCEPT !.kinds = (0 :> k)]
    /\ chan = <<>>
    /\ main = "drain"
    /\ tx = FALSE
    /\ returned = None
    /\ input_line = NoInput
    /\ generated_dice = None

NextDie ==
    \/ DieNew(0, InitSpeeds)
    \/ RollStep(0, "latest")
    \/ Sleep(0)
    \/ Friction(0)
    \/ RollExit(0)

SpecDie == InitDie /\ [][NextDie]_vars

\* One die rolling from every initial speed Die::new can draw: a die of two
\* faces, whose speeds then pass through every value from 120 down to 1, and
\* a die of twenty faces from the lowest and the highest initial speed
FullSpeedKinds == {"Two", "Twenty"}
FullSpeeds(kind) ==
    IF kind = "Two" THEN MIN_INIT_SPEED..MAX_INIT_SPEED
    ELSE {MIN_INIT_SPEED, MAX_INIT_SPEED}

InitFullSpeed ==
    /\ term = ThrowTerminal
    /\ \E k \in FullSpeedKinds :
          /\ dice = [id \in {0} |-> Spawned(k)]
          /\ thrown = generated("Normal", <<[coefficient |-> 1, kind |-> k, modifier |-> 0]>>)
          /\ table = [Table_new(thrown) EXCEPT !.kinds = (0 :> k)]
    /\ chan = <<>>
    /\ main = "drain"
    /\ tx = FALSE
    /\ returned = None
    /\ input_line = NoInput
    /\ generated_dice = None

NextFullSpeed ==
    \/ DieNew(0, FullSpeeds(dice[0].kind))
    \/ RollStep(0, "ids")
    \/ Sleep(0)
    \/ Friction(0)
    \/ RollExit(0)

SpecFullSpeed == InitFullSpeed /\ [][NextFullSpeed]_vars

\* One die rolling in a terminal of two columns, where the left wall and the
\* right wall of a two-digit face are the same column
NarrowTerminals == {<<2, 3>>}
NarrowKinds == {"Six", "Ten", "PercentTens"}

InitNarrow ==
    /\ term \in NarrowTerminals
    /\ \E k \in NarrowKinds :
          /\ dice = [id \in {0} |-> Spawned(k)]
          /\ thrown = generated("Normal", <<[coefficient |-> 1, kind |-> k, modifier |-> 0]>>)
          /\ table = [Table_new(thrown) EXCEPT !.kinds = (0 :> k)]
    /\ chan = <<>>
    /\ main = "drain"
    /\ tx = FALSE
    /\ returned = None
    /\ input_line = NoInput
    /\ generated_dice = None

SpecNarrow == InitNarrow /\ [][NextDie]_vars

----------------------------------------------------------------------------
(* lib.rs: throw, up to the end of the receive loop *)

\* whether some Sender of the channel is alive: the one throw holds, or the
\* clone owned by a die thread that has not ended
senders_alive ==
    tx \/ \E id \in DOMAIN dice : dice[id].pc \notin {"done", "panicked"}

\* Spawn as it would be if the loop went through the dice from the last one
SpawnReversed ==
    /\ main = "spawn"
    /\ LET id == Cardinality(DOMAIN dice)
       IN  /\ id < Len(thrown.dice)
           /\ table' = log_kind(table, id, thrown.dice[Len(thrown.dice) - id])
           /\ dice' = insert(dice, id, Spawned(thrown.dice[Len(thrown.dice) - id]))
    /\ UNCHANGED <<input_line, generated_dice, term, thrown, returned, main, tx, chan>>

\* Spawn as it would be without the log_kind
SpawnUnlogged ==
    /\ main = "spawn"
    /\ LET id == Cardinality(DOMAIN dice)
       IN  /\ id < Len(thrown.dice)
           /\ dice' = insert(dice, id, Spawned(thrown.dice[id + 1]))
    /\ UNCHANGED <<input_line, generated_dice, term, thrown, returned, main, tx, chan, table>>

\* one pass of the spawn loop: clone the Sender, log the kind, spawn the thread
Spawn ==
    /\ main = "spawn"
    /\ LET id == Cardinality(DOMAIN dice)       \* enumerate(): ids start at zero
       IN  /\ id < Len(thrown.dice)
           /\ table' = log_kind(table, id, thrown.dice[id + 1])
           /\ dice' = insert(dice, id, Spawned(thrown.dice[id + 1]))
    /\ UNCHANGED <<input_line, generated_dice, term, thrown, returned, main, tx, chan>>

\* DropTx as it would be without the drop(tx)
DropTxForgotten ==
    /\ main = "spawn"
    /\ Cardinality(DOMAIN dice) = Len(thrown.dice)
    /\ main' = "drain"
    /\ UNCHANGED <<input_line, generated_dice, term, thrown, returned, tx, table, dice, chan>>

\* drop(tx) after the spawn loop
DropTx ==
    /\ main = "spawn"
    /\ Cardinality(DOMAIN dice) = Len(thrown.dice)
    /\ tx' = FALSE
    /\ main' = "drain"
    /\ UNCHANGED <<input_line, generated_dice, term, thrown, returned, table, dice, chan>>

\* one pass of `for (id, face, position) in rx`: Table::update, which panics
\* on self.kinds.get(&id).unwrap() when no kind is logged for the id
Receive ==
    /\ main = "drain"
    /\ chan # <<>>
    /\ IF Head(chan)[1] \in DOMAIN table.kinds
       THEN /\ table' = update(table, Head(chan)[1], Head(chan)[2], Head(chan)[3])
            /\ main' = main
       ELSE /\ table' = table
            /\ main' = "panicked"
    /\ chan' = Tail(chan)
    /\ UNCHANGED <<input_line, generated_dice, term, thrown, returned, tx, dice>>

\* the receive loop ends: the channel is empty and every Sender is gone
Drained ==
    /\ main = "drain"
    /\ chan = <<>>
    /\ ~senders_alive
    /\ main' = "drained"
    /\ UNCHANGED <<input_line, generated_dice, term, thrown, returned, tx, table, dice, chan>>

\* the rolls the explored throw is called with
ThrowRolls ==
    {generated("Normal", <<[coefficient |-> n, kind |-> "Two", modifier |-> 0]>>) :
        n \in ThrowCoefficients}
    \cup {generated("Percentile", <<[coefficient |-> 1, kind |-> "PercentTens", modifier |-> 0]>>)}
    \cup {generated("Normal", <<[coefficient |-> 1, kind |-> "Twenty", modifier |-> 0]>>)}

\* the ids of the dice of those rolls
ThrowIds == UNION {0..(n - 1) : n \in ThrowCoefficients}

InitThrow ==
    /\ term = ThrowTerminal
    /\ thrown \in ThrowRolls
    /\ table = Table_new(thrown)
    /\ dice = <<>>
    /\ chan = <<>>
    /\ main = "spawn"
    /\ tx = TRUE
    /\ returned = None
    /\ input_line = NoInput
    /\ generated_dice = None

DieThread(id) ==
    \/ DieNew(id, ShortSpeeds(dice[id].kind))
    \/ RollStep(id, "queue")
    \/ Sleep(id)
    \/ Friction(id)
    \/ RollExit(id)

NextThrow ==
    \/ Spawn
    \/ DropTx
    \/ Receive
    \/ Drained
    \/ \E id \in DOMAIN dice : DieThread(id)

SpecThrow == InitThrow /\ [][NextThrow]_vars

\* every thread that can take a step eventually does, and so does throw
FairThrow ==
    /\ SpecThrow
    /\ WF_vars(Spawn \/ DropTx \/ Receive \/ Drained)
    /\ \A id \in ThrowIds : WF_vars(id \in DOMAIN dice /\ DieThread(id))

----------------------------------------------------------------------------
(* lib.rs: throw, after the receive loop *)

\* table.redraw(), table.crit_colour() and the " PRESS ANY KEY " pause
Redraw ==
    /\ main = "drained"
    /\ IF redraw(table) = None
       THEN main' = "panicked" /\ table' = table
       ELSE main' = "paused" /\ table' = redraw(table)[1]
    /\ UNCHANGED <<input_line, generated_dice, term, thrown, returned, tx, dice, chan>>

\* `if let Err(error) = table.show_math() { table.print_error(error) }`:
\* the table it leaves, and whether show_math panicked
displayed(t, math) ==
    [panic |-> math.result = "panic",
     table |-> IF math.result = "Err" THEN print_error(t) ELSE math.table]

display(t, size) == displayed(t, show_math(t, size))

\* a key ends the pause and the results are displayed
ShowResults ==
    /\ main = "paused"
    /\ \E shown \in {display(table, term)} :
          /\ main' = IF shown.panic THEN "panicked" ELSE "keys"
          /\ table' = shown.table
    /\ UNCHANGED <<input_line, generated_dice, term, thrown, returned, tx, dice, chan>>

\* Key::Char('t'): back to the dice when the graph is on, else the graph
\* again (over the dice, which are drawn again after an error)
KeyToggle ==
    /\ main = "keys"
    /\ IF table.graph_on
       THEN \E drawn \in {redraw(table)} :
               /\ main' = IF drawn = None THEN "panicked" ELSE "keys"
               /\ table' = IF drawn = None THEN table ELSE drawn[1]
       ELSE \E drawn \in {IF table.error_on THEN redraw(table) ELSE Some(table)} :
               IF drawn = None
               THEN main' = "panicked" /\ table' = table
               ELSE \E shown \in {display(drawn[1], term)} :
                       /\ main' = IF shown.panic THEN "panicked" ELSE "keys"
                       /\ table' = shown.table
    /\ UNCHANGED <<input_line, generated_dice, term, thrown, returned, tx, dice, chan>>

\* Key::Char('r'): throw returns Some(table.do_math())
KeyReturn ==
    /\ main = "keys"
    /\ \E one_liner \in {do_math(table)} :
          /\ main' = IF one_liner = None THEN "panicked" ELSE "returned"
          /\ returned' = one_liner
    /\ UNCHANGED <<input_line, generated_dice, term, thrown, tx, table, dice, chan>>

\* Key::Esc, or the end of the input: throw returns None
KeyEsc ==
    /\ main = "keys"
    /\ main' = "exit"
    /\ UNCHANGED <<input_line, generated_dice, term, thrown, returned, tx, table, dice, chan>>

\* the user resizes the window while throw waits for a key
Resize ==
    /\ main \in {"paused", "keys"}
    /\ term' \in Terminals \ {term}
    /\ UNCHANGED <<input_line, generated_dice, thrown, returned, main, tx, table, dice, chan>>

\* the faces flip can leave on a die of this kind
Faces(kind) == {flip(kind, v) : v \in 1..value(kind)}

\* the lowest face and the two highest
SampleFaces(kind) == {flip(kind, v) : v \in {1, value(kind) - 1, value(kind)}}

RECURSIVE FaceChoices(_, _)
\* the lists of final faces of a list of dice: every face of every die
\* (all), or the sampled ones
FaceChoices(kinds, all) ==
    IF kinds = <<>> THEN {<<>>}
    ELSE {<<f>> \o others :
             f \in IF all THEN Faces(Head(kinds)) ELSE SampleFaces(Head(kinds)),
             others \in FaceChoices(Tail(kinds), all)}

\* the command lists of the Normal rolls explored
NormalCommands ==
    {commands \in UNION {[1..n -> [coefficient : 1..MaxRolled, kind : MathKinds,
                                   modifier : MathModifiers]] : n \in CommandCounts} :
        Sum([i \in 1..Len(commands) |-> commands[i].coefficient]) <= MaxRolled}

\* the rolls generate_dice can make of one special command
SpecialRolls ==
    {generated(code, <<[coefficient |-> 1, kind |-> k, modifier |-> m]>>) :
        code \in {"Advantage", "Disadvantage"}, k \in MathKinds, m \in MathModifiers}
    \cup {generated("Percentile", <<[coefficient |-> 1, kind |-> "PercentTens", modifier |-> m]>>) :
            m \in MathModifiers}

\* a special roll with one die more than generate_dice loads: throw is public
\* and takes any list of dice
Overfull(roll) == [roll EXCEPT !.dice = Append(roll.dice, roll.dice[Len(roll.dice)])]

\* whether generate_dice returns this roll
FromGenerateDice(roll) == roll = generated(roll.code, roll.commands)

\* the state in which the receive loop ends after this roll left these faces
\* at these positions: every die has stopped and the table holds its last event
InitStopped(size, roll, faces, positions) ==
    /\ term = size
    /\ thrown = roll
    /\ dice = [id \in 0..(Len(roll.dice) - 1) |->
                  [Spawned(roll.dice[id + 1]) EXCEPT !.face_up = faces[id + 1],
                                                     !.position = positions[id + 1],
                                                     !.pc = "done"]]
    /\ table = [Table_new(roll) EXCEPT
                   !.kinds = [id \in 0..(Len(roll.dice) - 1) |-> roll.dice[id + 1]],
                   !.tracker = [id \in 0..(Len(roll.dice) - 1) |-> positions[id + 1]],
                   !.results = [id \in 0..(Len(roll.dice) - 1) |-> faces[id + 1]],
                   !.surface = DiceScreen([id \in 0..(Len(roll.dice) - 1) |->
                                              written(id, faces[id + 1], positions[id + 1],
                                                      roll.dice[id + 1], size)])]
    /\ chan = <<>>
    /\ main = "drained"
    /\ tx = FALSE
    /\ returned = None
    /\ input_line = NoInput
    /\ generated_dice = None

\* that state with every die stopped in the middle of the terminal
InitDrained(size, roll, faces) ==
    InitStopped(size, roll, faces, [i \in 1..Len(roll.dice) |-> terminal_centre(size)])

InitMath ==
    \E size \in Terminals :
       \/ \E commands \in NormalCommands :
          \E roll \in {generated("Normal", commands)} :
          \E faces \in FaceChoices(roll.dice, FALSE) : InitDrained(size, roll, faces)
       \/ \E roll \in SpecialRolls :
          \E faces \in FaceChoices(roll.dice, roll.dice[1] \in FullFaceKinds) :
             InitDrained(size, roll, faces)
       \/ \E roll \in {Overfull(r) : r \in SpecialRolls} :
          \E faces \in FaceChoices(roll.dice, FALSE) : InitDrained(size, roll, faces)

NextMath ==
    \/ Redraw
    \/ ShowResults
    \/ KeyToggle
    \/ KeyReturn
    \/ KeyEsc
    \/ Resize

SpecMath == InitMath /\ [][NextMath]_vars

\* the long rolls explored after the drain: one command of LongCounts dice, or
\* two commands, of d6 that stopped on the faces of LongFaces
LongCounts == {1, 5, 6, 7, 8}
LongFaces == {2, 5}
LongModifiers == {0, -2}
LongTerminals == {<<36, 24>>}

LongRolls ==
    {generated("Normal", <<[coefficient |-> n, kind |-> "Six", modifier |-> m]>>) :
        n \in LongCounts, m \in LongModifiers}
    \cup {generated("Normal", <<[coefficient |-> n, kind |-> "Six", modifier |-> m],
                               [coefficient |-> 1, kind |-> "Six", modifier |-> 0]>>) :
            n \in {1, 6}, m \in LongModifiers}

InitLong ==
    \E size \in LongTerminals, roll \in LongRolls :
    \E faces \in [1..Len(roll.dice) -> LongFaces] : InitDrained(size, roll, faces)

SpecLong == InitLong /\ [][NextMath]_vars

\* the rolls explored with dice stopped near the right wall: one d6 or one d20
WallRolls ==
    {generated("Normal", <<[coefficient |-> 1, kind |-> k, modifier |-> 0]>>) :
        k \in {"Six", "Twenty"}}

\* where those dice stopped: in the middle of the terminal, or on its last
\* or second-last column
WallPositions(size) ==
    {terminal_centre(size), <<size[1] - 1, terminal_centre(size)[2]>>,
     <<size[1], terminal_centre(size)[2]>>}

InitResized ==
    \E size \in Terminals, roll \in WallRolls :
    \E faces \in FaceChoices(roll.dice, FALSE),
       positions \in [1..Len(roll.dice) -> WallPositions(size)] :
       InitStopped(size, roll, faces, positions)

\* the display of the results of a die stopped near the right wall, in a
\* window the user resizes between the key presses
SpecResized == InitResized /\ [][NextMath]_vars

\* throw from its first line to its return: the spawn loop, the die threads
\* and the receive loop, then the display of the results and the keys
NextWholeThrow ==
    \/ NextThrow
    \/ NextMath

SpecWholeThrow == InitThrow /\ [][NextWholeThrow]_vars

----------------------------------------------------------------------------
(* main: a command line read and turned into the arguments of throw *)

\* what the explored commands are typed from
InputModes == {<<>>, ADV_PREFIX, DISADV_PREFIX}
InputCoefficients == {None, Some(0), Some(1), Some(2), Some(99), Some(100)}
InputKinds ==
    {[text |-> <<"6">>, kind |-> "Six"], [text |-> <<"2", "0">>, kind |-> "Twenty"],
     [text |-> <<"1", "0", "0">>, kind |-> "PercentTens"],
     [text |-> <<"%">>, kind |-> "PercentTens"], [text |-> <<"7">>, kind |-> "None"]}
InputModifiers == {None, Some(3), Some(-2), Some(99), Some(-99), Some(100), Some(-100)}
InputStyles == {"plain", "spaced", "upper"}
InputSeparators == {",", "/"}

\* the commands explored alone
SingleCommands ==
    [mode : InputModes, coefficient : InputCoefficients, die : InputKinds,
     modifier : InputModifiers]

\* the commands explored in pairs
PairedCommands ==
    {c \in SingleCommands :
        /\ c.mode \in {<<>>, ADV_PREFIX}
        /\ c.coefficient \in {None, Some(2)}
        /\ c.die.kind \in {"Six", "PercentTens"} /\ c.die.text # <<"%">>
        /\ c.modifier \in {None, Some(-2)}}

\* a pair of commands that asks for one die more than DIE_LIMIT
TooManyDice ==
    {<<[mode |-> <<>>, coefficient |-> Some(99), die |-> k, modifier |-> None],
       [mode |-> <<>>, coefficient |-> Some(1), die |-> k, modifier |-> None]>> :
        k \in {d \in InputKinds : d.kind = "Six"}}

upper(c) ==
    IF \E big \in {"A", "D", "E", "H", "I", "L", "P", "Q", "S", "T", "U", "V", "X"} :
          lower(big) = c
    THEN CHOOSE big \in {"A", "D", "E", "H", "I", "L", "P", "Q", "S", "T", "U", "V", "X"} :
            lower(big) = c
    ELSE c

\* the characters a user types for one command
Typed(c, gap) ==
    (IF c.mode = <<>> THEN gap ELSE gap \o c.mode \o <<" ">> \o gap)
        \o (IF c.coefficient = None THEN <<>> ELSE Decimal(c.coefficient[1]))
        \o <<"d">> \o c.die.text
        \o (IF c.modifier = None THEN <<>>
            ELSE gap \o <<(IF c.modifier[1] < 0 THEN "-" ELSE "+")>> \o gap
                     \o Decimal(IF c.modifier[1] < 0 THEN 0 - c.modifier[1]
                                 ELSE c.modifier[1])
                     \o gap)

\* the characters of a whole line in one of the styles
Styled(text, style) ==
    IF style = "upper" THEN [i \in 1..Len(text) |-> upper(text[i])] ELSE text

Gap(style) == IF style = "spaced" THEN <<" ">> ELSE <<>>

\* the lines main is given, each with the commands it was typed from
RollLines ==
    {[line |-> Styled(Typed(c, Gap(style)), style), typed |-> <<c>>] :
        c \in SingleCommands, style \in InputStyles}
    \cup {[line |-> Typed(pair[1], <<>>) \o <<sep>> \o Typed(pair[2], <<" ">>), typed |-> pair] :
            pair \in (PairedCommands \X PairedCommands) \cup TooManyDice,
            sep \in InputSeparators}

WordLines ==
    {[line |-> Styled(word, style), typed |-> <<>>] :
        word \in {<<"h", "e", "l", "p">>, <<"q", "u", "i", "t">>, <<"e", "x", "i", "t">>},
        style \in {"plain", "upper"}}

\* the word main matches a line against (main.rs line 16)
word_of(line) == to_lowercase(Trim(line))

InitInput ==
    /\ input_line = NoInput
    /\ generated_dice = None
    /\ main = "prompt"
    /\ thrown = None
    /\ term = ThrowTerminal
    /\ dice = <<>>
    /\ chan = <<>>
    /\ tx = FALSE
    /\ table = None
    /\ returned = None

\* dice::get_input() (main.rs line 15)
GetInput ==
    /\ main = "prompt"
    /\ input_line' \in RollLines \cup WordLines
    /\ generated_dice' = None
    /\ main' = "read"
    /\ UNCHANGED <<thrown, term, dice, chan, tx, table, returned>>

\* the "help" arm: help() is printed and the loop continues
Help ==
    /\ main = "read"
    /\ word_of(input_line.line) = <<"h", "e", "l", "p">>
    /\ main' = "prompt"
    /\ UNCHANGED <<input_line, generated_dice, thrown, term, dice, chan, tx, table, returned>>

\* the "quit" | "exit" arm: the loop is left
Quit ==
    /\ main = "read"
    /\ word_of(input_line.line) \in {<<"q", "u", "i", "t">>, <<"e", "x", "i", "t">>}
    /\ main' = "exit"
    /\ UNCHANGED <<input_line, generated_dice, thrown, term, dice, chan, tx, table, returned>>

\* match generate_dice(input): an Ok is handed to throw, an Err is printed and
\* the loop continues
GenerateDice ==
    /\ main = "read"
    /\ word_of(input_line.line) \notin
          {<<"h", "e", "l", "p">>, <<"q", "u", "i", "t">>, <<"e", "x", "i", "t">>}
    /\ \E result \in {generate_dice(input_line.line)} :
          /\ generated_dice' = Some(result)
          /\ \/ /\ result.ok
                /\ thrown' = [code |-> result.code, dice |-> result.dice,
                              modifiers |-> result.modifiers,
                              command_log |-> result.command_log]
                /\ main' = "throw"
             \/ /\ ~result.ok
                /\ thrown' = thrown
                /\ main' = "prompt"
    /\ UNCHANGED <<input_line, term, dice, chan, tx, table, returned>>

NextInput ==
    \/ GetInput
    \/ Help
    \/ Quit
    \/ GenerateDice

SpecInput == InitInput /\ [][NextInput]_vars

----------------------------------------------------------------------------
(* Properties of one rolling die *)

Started(id) == dice[id].pc # "new"

\* C5: in a terminal of at least 3 columns and 3 rows, after every step a die
\* that has been created is at 1 <= col <= columns and 1 <= row <= rows, and no
\* move of it ever left the unsigned range (no underflow, no panic).
C5_StaysInArena ==
    \A id \in DOMAIN dice :
        Started(id) =>
            /\ dice[id].pc # "panicked"
            /\ 1 <= dice[id].position[1] /\ dice[id].position[1] <= term[1]
            /\ 1 <= dice[id].position[2] /\ dice[id].position[2] <= term[2]

\* a die has just bounced out of the bottom-right corner
C5_Witness ==
    \E id \in DOMAIN dice :
        /\ dice[id].pc = "sleep"
        /\ dice[id].hit = "DownRight"
        /\ term[1] >= 3 /\ term[2] >= 3

\* the loss of speed per step, as the catalogue of die kinds states it
Loss(kind) ==
    CASE kind = "Two" -> 10
      [] kind = "Four" -> 7
      [] kind = "Six" -> 4
      [] kind = "Ten" -> 3
      [] kind = "Twelve" -> 2
      [] kind = "Twenty" -> 1
      [] kind \in {"PercentTens", "PercentOnes"} -> 3

\* every pass through the loop body lowers the speed by the kind's loss, and
\* nothing else changes the speed of a created die
SpeedDecays ==
    \A id \in DOMAIN dice :
        /\ (dice[id].pc = "friction" /\ dice'[id].pc = "roll") =>
                /\ dice'[id].speed = dice[id].speed - Loss(dice[id].kind)
                /\ dice'[id].speed < dice[id].speed
        /\ (Started(id) /\ dice[id].pc # "friction") => dice'[id].speed = dice[id].speed
        /\ (dice[id].pc = "roll" /\ dice[id].speed > STOP_SPEED) => dice'[id].pc # "done"

\* a die whose speed is at or below zero sends nothing more
SilentWhenStopped ==
    \A id \in DOMAIN dice :
        (Started(id) /\ dice[id].speed <= STOP_SPEED) =>
            (chan' = chan /\ dice'[id].pc \in {"roll", "done"})

\* how far a die is from the end of its roll: it counts the speed left and the
\* place in the loop body, and is at least -30 for any speed above -10
Remaining(d) ==
    CASE d.pc = "new" -> 3 * MAX_INIT_SPEED + 4
      [] d.pc = "roll" -> 3 * d.speed + 3
      [] d.pc = "sleep" -> 3 * d.speed + 2
      [] d.pc = "friction" -> 3 * d.speed + 1
      [] OTHER -> 3 * d.speed

\* every step of a die brings it nearer to the end of its roll
Advances ==
    \A id \in DOMAIN dice :
        dice'[id] # dice[id] =>
            (Remaining(dice'[id]) < Remaining(dice[id]) /\ Remaining(dice'[id]) >= -30)

\* a die that has not left the loop can take its next step
NeverStuck ==
    \A id \in DOMAIN dice :
        \/ dice[id].pc = "done" /\ dice[id].speed <= STOP_SPEED
        \/ ENABLED (DieNew(id, InitSpeeds) \/ RollStep(id, "latest") \/ Sleep(id) \/ Friction(id)
                        \/ RollExit(id))

\* C6: for every kind and initial speed the speed falls by |acceleration(kind)|
\* on every step, the loop ends after finitely many steps (each step lowers a
\* bounded measure and a step is possible until the loop is left), and a die
\* whose speed is <= 0 emits no further event.
C6_SlowsAndStops ==
    /\ [][SpeedDecays /\ SilentWhenStopped /\ Advances]_vars
    /\ []NeverStuck

\* a die has gone through its last step and left the loop
C6_Witness ==
    \E id \in DOMAIN dice :
        dice[id].pc = "done" /\ dice[id].speed <= STOP_SPEED /\ Len(chan) = 1

\* the fields of the Die struct, without the bookkeeping of the model
Fields(d) == <<d.kind, d.face_up, d.position, d.speed, d.direction>>

\* C9: every iteration of Die::roll redraws the face, checks for a collision
\* (with the new face), moves (along the direction the check left), sends
\* exactly one event <<id, new face, position after the move>>, sleeps, and
\* only then applies friction; nothing else sends or changes the speed.
C9_StepOrder ==
    [][\A id \in DOMAIN dice :
        LET d == dice[id]
            e == dice'[id]
        IN  /\ (d.pc = "roll" /\ e.pc = "sleep") =>
                    /\ chan' = <<(<<id, e.face_up, e.position>>)>>
                    /\ e.hit \in {"None", wall_zone([d EXCEPT !.face_up = e.face_up], term)}
                    /\ e.position = <<d.position[1] + delta(e.direction)[1],
                                      d.position[2] + delta(e.direction)[2]>>
                    /\ e.speed = d.speed
            /\ d.pc = "sleep" =>
                    (e.pc = "friction" /\ Fields(e) = Fields(d) /\ chan' = chan)
            /\ d.pc = "friction" =>
                    /\ e.pc = "roll"
                    /\ Fields(e) = Fields([d EXCEPT !.speed = d.speed + acceleration(d.kind)])
                    /\ chan' = chan
            /\ chan' # chan => (d.pc = "roll" /\ e.pc = "sleep")
            /\ (Started(id) /\ e.position # d.position) => (d.pc = "roll" /\ e.pc = "sleep")
            /\ (Started(id) /\ e.speed # d.speed) => d.pc = "friction"
      ]_vars

\* a die has sent the event of a step, has slept and is about to apply friction
C9_Witness ==
    \E id \in DOMAIN dice :
        /\ dice[id].pc = "friction"
        /\ dice[id].speed < MIN_INIT_SPEED
        /\ chan = <<event(id, dice[id])>>

\* the diagonal that points away from a corner
AwayFrom(corner) ==
    CASE corner = "UpLeft" -> "DownRight"
      [] corner = "UpRight" -> "DownLeft"
      [] corner = "DownLeft" -> "UpRight"
      [] corner = "DownRight" -> "UpLeft"

\* the corner of a terminal of size t that position p lies in, for the face
\* drawn in this step ("None" outside the corners)
CornerOf(p, face, kind, t) ==
    LET right == IF face >= 10 \/ kind = "PercentTens" THEN t[1] - 1 ELSE t[1]
    IN  IF p[1] <= 1 /\ p[2] <= 1 THEN "UpLeft"
        ELSE IF p[1] >= right /\ p[2] <= 1 THEN "UpRight"
        ELSE IF p[1] <= 1 /\ p[2] >= t[2] THEN "DownLeft"
        ELSE IF p[1] >= right /\ p[2] >= t[2] THEN "DownRight"
        ELSE "None"

\* C10: whenever detect_wall detects a collision in a corner zone, the new
\* direction is the diagonal pointing away from that corner, whatever the
\* direction was and with no random choice.
C10_CornerBounce ==
    [][\A id \in DOMAIN dice :
        LET d == dice[id]
            e == dice'[id]
            corner == CornerOf(d.position, e.face_up, d.kind, term)
        IN  (d.pc = "roll" /\ e.pc = "sleep" /\ corner # "None" /\ e.hit # "None") =>
                (e.hit = corner /\ e.direction = AwayFrom(corner))
      ]_vars

\* a die has collided in the top-right corner and left it going down-left
C10_Witness ==
    \E id \in DOMAIN dice :
        /\ dice[id].pc = "sleep"
        /\ dice[id].hit = "UpRight"
        /\ dice[id].direction = "DownLeft"

\* the walls a direction has a component into
Heads(direction) ==
    CASE direction = "Up" -> {"Up"}
      [] direction = "Down" -> {"Down"}
      [] direction = "Left" -> {"Left"}
      [] direction = "Right" -> {"Right"}
      [] direction = "UpLeft" -> {"Up", "Left"}
      [] direction = "UpRight" -> {"Up", "Right"}
      [] direction = "DownLeft" -> {"Down", "Left"}
      [] direction = "DownRight" -> {"Down", "Right"}
      [] direction = "None" -> {}

\* C11, as claimed: in a corner zone a collision is detected only for the
\* direction that points into both walls of the corner, and a direction that
\* points into one of them or into neither is left unchanged.
C11_CornerOnlyBothWalls ==
    [][\A id \in DOMAIN dice :
        LET d == dice[id]
            e == dice'[id]
            corner == CornerOf(d.position, e.face_up, d.kind, term)
        IN  (d.pc = "roll" /\ e.pc = "sleep" /\ corner # "None") =>
                /\ e.hit # "None" => Heads(corner) \subseteq Heads(d.direction)
                /\ ~(Heads(corner) \subseteq Heads(d.direction)) => e.direction = d.direction
      ]_vars

\* C11, amended: in a corner zone a collision is detected exactly when the
\* direction points into at least one of the two walls of the corner; only a
\* direction that points into neither wall is left unchanged.
C11_CornerAnyWall ==
    [][\A id \in DOMAIN dice :
        LET d == dice[id]
            e == dice'[id]
            corner == CornerOf(d.position, e.face_up, d.kind, term)
        IN  (d.pc = "roll" /\ e.pc = "sleep" /\ corner # "None") =>
                /\ e.hit # "None" <=> Heads(corner) \cap Heads(d.direction) # {}
                /\ e.hit # "None" => (e.hit = corner /\ e.was = d.direction)
                /\ e.hit = "None" => e.direction = d.direction
      ]_vars

\* a die heading straight up has collided in the top-left corner
C11_Witness ==
    \E id \in DOMAIN dice :
        /\ dice[id].pc = "sleep"
        /\ dice[id].hit = "UpLeft"
        /\ dice[id].was = "Up"
        /\ dice[id].direction = "DownRight"

\* the wall opposite a wall
Opposite(wall) ==
    CASE wall = "Up" -> "Down"
      [] wall = "Down" -> "Up"
      [] wall = "Left" -> "Right"
      [] wall = "Right" -> "Left"

\* the single wall that position p touches in a terminal of size t, for the
\* face drawn in this step ("None" in the interior and in the corners)
SingleWallOf(p, face, kind, t) ==
    LET right == IF face >= 10 \/ kind = "PercentTens" THEN t[1] - 1 ELSE t[1]
    IN  IF CornerOf(p, face, kind, t) # "None" THEN "None"
        ELSE IF p[1] <= 1 THEN "Left"
        ELSE IF p[1] >= right THEN "Right"
        ELSE IF p[2] >= t[2] THEN "Down"
        ELSE IF p[2] <= 1 THEN "Up"
        ELSE "None"

\* C12: a die heading straight into a single wall leaves the step heading
\* straight back or along one of the two diagonals next to that; whatever the
\* coins, bounce reverses it without a redirect and gives the two diagonals,
\* one for each outcome of the second coin, with a redirect.
C12_CardinalBounce ==
    [][\A id \in DOMAIN dice :
        (/\ dice[id].pc = "roll" /\ dice'[id].pc = "sleep"
         /\ dice[id].direction \in {"Up", "Down", "Left", "Right"}) =>
            \A wall \in {SingleWallOf(dice[id].position, dice'[id].face_up,
                                       dice[id].kind, term)} \cap {dice[id].direction} :
            \A back \in {Opposite(wall)} :
            \A vertical \in {wall \in {"Left", "Right"}} :
                /\ dice'[id].hit = wall
                /\ back \in Heads(dice'[id].direction)
                /\ \A option \in BOOLEAN :
                      /\ bounce(wall, vertical, FALSE, option) = back
                      /\ \E turned \in {bounce(wall, vertical, TRUE, option)} :
                            /\ back \in Heads(turned)
                            /\ turned # back
                /\ bounce(wall, vertical, TRUE, FALSE) # bounce(wall, vertical, TRUE, TRUE)
      ]_vars

\* a die heading left into the left wall has been redirected up and right
C12_Witness ==
    \E id \in DOMAIN dice :
        /\ dice[id].pc = "sleep"
        /\ dice[id].hit = "Left"
        /\ dice[id].was = "Left"
        /\ dice[id].direction = "UpRight"

\* C13: a die heading diagonally into a single wall leaves the step with the
\* component into the wall reversed and the other kept, or, redirected,
\* heading straight away from the wall; bounce gives the first without a
\* redirect and the second with one, and never the opposite diagonal.
C13_DiagonalBounce ==
    [][\A id \in DOMAIN dice :
        (/\ dice[id].pc = "roll" /\ dice'[id].pc = "sleep"
         /\ dice[id].direction \in {"UpLeft", "UpRight", "DownLeft", "DownRight"}) =>
            \A heads \in {Heads(dice[id].direction)} :
            \A wall \in {SingleWallOf(dice[id].position, dice'[id].face_up,
                                       dice[id].kind, term)} \cap heads :
            \A back \in {Opposite(wall)} :
            \A reflected \in {(heads \ {wall}) \cup {back}} :
            \A vertical \in {wall \in {"Left", "Right"}} :
                /\ dice'[id].hit = wall
                /\ Heads(dice'[id].direction) \in {reflected, {back}}
                /\ dice'[id].direction # AwayFrom(dice[id].direction)
                /\ \A option \in BOOLEAN :
                      /\ Heads(bounce(dice[id].direction, vertical, FALSE, option)) = reflected
                      /\ bounce(dice[id].direction, vertical, TRUE, option) = back
      ]_vars

\* a die heading up and left into the ceiling has been redirected straight down
C13_Witness ==
    \E id \in DOMAIN dice :
        /\ dice[id].pc = "sleep"
        /\ dice[id].hit = "Up"
        /\ dice[id].was = "UpLeft"
        /\ dice[id].direction = "Down"

\* the zone of position p: a corner, a single wall, or "None" in the interior
ZoneOf(p, face, kind, t) ==
    IF CornerOf(p, face, kind, t) # "None" THEN CornerOf(p, face, kind, t)
    ELSE SingleWallOf(p, face, kind, t)

\* C14: the collision check of a roll step changes neither position, speed,
\* face nor kind of the die, whatever the coins (the position after the step
\* is one move from the position before it, the speed is the same), and a die
\* in the interior, or in a wall zone with no component into a wall of that
\* zone, keeps its direction.
C14_DetectWallFrame ==
    [][\A id \in DOMAIN dice :
        (dice[id].pc = "roll" /\ dice'[id].pc = "sleep") =>
            \A d \in {[dice[id] EXCEPT !.face_up = dice'[id].face_up]} :
            \A clear \in {Heads(ZoneOf(d.position, d.face_up, d.kind, term))
                              \cap Heads(d.direction) = {}} :
                /\ \A redirect \in BOOLEAN, option \in BOOLEAN :
                      \E checked \in {detect_wall(d, term, redirect, option)} :
                          /\ checked.position = d.position
                          /\ checked.speed = d.speed
                          /\ checked.face_up = d.face_up
                          /\ checked.kind = d.kind
                          /\ clear => checked.direction = d.direction
                /\ dice'[id].speed = d.speed
                /\ dice'[id].kind = d.kind
                /\ dice'[id].position[1] - d.position[1] \in {-1, 0, 1}
                /\ dice'[id].position[2] - d.position[2] \in {-1, 0, 1}
                /\ clear => (dice'[id].direction = d.direction /\ dice'[id].hit = "None")
      ]_vars

\* a die that stood in a wall zone heading away from its walls has moved on
\* without a collision
C14_Witness ==
    \E id \in DOMAIN dice :
        /\ dice[id].pc = "sleep"
        /\ dice[id].hit = "None"
        /\ ZoneOf(<<dice[id].position[1] - delta(dice[id].direction)[1],
                    dice[id].position[2] - delta(dice[id].direction)[2]>>,
                  dice[id].face_up, dice[id].kind, term) # "None"

\* the values a die of this kind displays
ValueSet(kind) ==
    CASE kind = "Two" -> 1..2
      [] kind = "Four" -> 1..4
      [] kind = "Six" -> 1..6
      [] kind = "Ten" -> 1..10
      [] kind = "Twelve" -> 1..12
      [] kind = "Twenty" -> 1..20
      [] kind = "PercentTens" -> {0, 10, 20, 30, 40, 50, 60, 70, 80, 90}
      [] kind = "PercentOnes" -> 0..9

\* C18: the face a die holds from Die::new on, and the face of every event it
\* sends, is one of the values of its kind; hence so is every result the
\* table holds, and every result it holds once it has recorded the event.
C18_FacesInValueSet ==
    /\ \A id \in DOMAIN dice : Started(id) => dice[id].face_up \in ValueSet(dice[id].kind)
    /\ \A k \in 1..Len(chan) : chan[k][2] \in ValueSet(dice[chan[k][1]].kind)
    /\ \A id \in DOMAIN table.results : table.results[id] \in ValueSet(table.kinds[id])
    /\ \A k \in 1..Len(chan) :
          \A recorded \in {update(table, chan[k][1], chan[k][2], chan[k][3])} :
          \A id \in DOMAIN recorded.results :
              recorded.results[id] \in ValueSet(recorded.kinds[id])

\* a ones die of a percentile roll has sent an event with the face 0
C18_Witness ==
    /\ chan # <<>>
    /\ dice[chan[1][1]].kind = "PercentOnes"
    /\ chan[1][2] = 0
    /\ dice[chan[1][1]].face_up = 0

\* C23: the loop body runs, and so the die is suspended, only with a speed of
\* 1 to 120; the suspension lasts floor(1000 / speed) milliseconds of the speed
\* the step ran with, friction being applied after it, and so lasts between 8
\* and 1000 milliseconds.
C23_FlipTime ==
    \A id \in DOMAIN dice :
        /\ dice[id].pc \in {"sleep", "friction"} =>
              dice[id].speed \in 1..MAX_INIT_SPEED
        /\ dice[id].pc = "friction" =>
              /\ dice[id].slept * dice[id].speed <= 1000
              /\ (dice[id].slept + 1) * dice[id].speed > 1000
              /\ dice[id].slept \in 8..1000

\* the last step of a die that started with speed 111: a suspension of a second
C23_Witness ==
    /\ dice[0].pc = "friction"
    /\ dice[0].speed = 1
    /\ dice[0].slept = 1000
    /\ Len(chan) = 12

\* whether the direction has a component to the right
HeadsRight(direction) == direction \in {"Right", "UpRight", "DownRight"}

\* C24: in a step whose drawn face is two-digit (10 or more, or of the kind
\* PercentTens), a die at column W-1 or beyond whose direction has a rightward
\* component bounces: detect_wall detects a collision, the die leaves the step
\* with no rightward component and has not advanced to the right.
C24_TwoDigitRightWall ==
    [][\A id \in DOMAIN dice :
          (/\ dice[id].pc = "roll"
           /\ dice'[id].pc = "sleep"
           /\ is_two_digits(dice'[id].face_up, dice[id].kind)
           /\ dice[id].position[1] >= term[1] - 1
           /\ HeadsRight(dice[id].direction))
          => /\ dice'[id].hit # "None"
             /\ ~HeadsRight(dice'[id].direction)
             /\ dice'[id].position[1] <= dice[id].position[1]
      ]_vars

\* of `events` events of a die, those whose friction has been applied
Slowed(d, events) == IF d.pc \in {"sleep", "friction"} THEN events - 1 ELSE events

\* the speed of a die with what the friction of its events so far took back
Regained(d, events) == d.speed + Slowed(d, events) * (0 - acceleration(d.kind))

\* the least number of steps of `loss` that take away the whole of `speed`
StepsFor(speed, loss) == (speed + loss - 1) \div loss

\* C29: a die is created with a speed of 60 to 120 and no event sent; every
\* pass through the loop body sends one event and takes the loss of the kind
\* from the speed, so that the speed and the losses so far always add up to
\* the initial speed; the die leaves the loop after exactly ceil(initial
\* speed / loss) events, between 6 and 12 for a D2 and between 60 and 120 for
\* a D20, with a speed above acceleration(kind) and at most 0.
C29_EventCount ==
    /\ [][\A id \in DOMAIN dice :
            /\ (dice[id].pc = "new" /\ dice'[id].pc = "roll") =>
                  /\ chan' = <<>>
                  /\ dice'[id].speed \in MIN_INIT_SPEED..MAX_INIT_SPEED
            /\ (dice[id].pc = "roll" /\ dice'[id].pc = "sleep") =>
                  chan' = Append(chan, <<id>>)
            /\ (Started(id) /\ ~(dice[id].pc = "roll" /\ dice'[id].pc = "sleep")) =>
                  chan' = chan
            /\ Started(id) => Regained(dice'[id], Len(chan')) = Regained(dice[id], Len(chan))
         ]_vars
    /\ [](\A id \in DOMAIN dice :
            /\ Started(id) =>
                  Regained(dice[id], Len(chan)) \in MIN_INIT_SPEED..MAX_INIT_SPEED
            /\ dice[id].pc = "done" =>
                  /\ Len(chan) = StepsFor(Regained(dice[id], Len(chan)),
                                          0 - acceleration(dice[id].kind))
                  /\ dice[id].speed > acceleration(dice[id].kind)
                  /\ dice[id].speed <= 0
                  /\ dice[id].kind = "Two" => Len(chan) \in 6..12
                  /\ dice[id].kind = "Twenty" => Len(chan) \in 60..120)

\* a D2 created with speed 61 has left the loop after 7 events with speed -9
C29_Witness ==
    /\ dice[0].kind = "Two"
    /\ dice[0].pc = "done"
    /\ Len(chan) = 7
    /\ dice[0].speed = -9

\* the distance between two columns or two rows
Apart(m, n) == IF m < n THEN n - m ELSE m - n

\* C30: a die that has been created never has the direction None: the
\* direction Die::new draws is a moving one and every bounce, of a wall or of
\* a corner, turns a moving direction into a moving one; so every step moves
\* the die by one cell in at least one axis and by at most one cell in each.
C30_AlwaysMoving ==
    /\ [](/\ \A id \in DOMAIN dice : Started(id) => dice[id].direction # "None"
          /\ \A direction \in {"Up", "Down", "Left", "Right",
                                "UpLeft", "UpRight", "DownLeft", "DownRight"} :
                /\ \A wall \in BOOLEAN, redirect \in BOOLEAN, option \in BOOLEAN :
                      bounce(direction, wall, redirect, option) # "None"
                /\ direction \in {"UpLeft", "UpRight", "DownLeft", "DownRight"} =>
                      corner_bounce(direction) # "None")
    /\ [][\A id \in DOMAIN dice :
            (dice[id].pc = "roll" /\ dice'[id].pc = "sleep") =>
                \A cols \in {Apart(dice[id].position[1], dice'[id].position[1])},
                   rows \in {Apart(dice[id].position[2], dice'[id].position[2])} :
                    /\ cols <= 1
                    /\ rows <= 1
                    /\ cols = 1 \/ rows = 1
                    /\ dice'[id].position[1] =
                          dice[id].position[1] + delta(dice'[id].direction)[1]
                    /\ dice'[id].position[2] =
                          dice[id].position[2] + delta(dice'[id].direction)[2]
         ]_vars

\* a die heading left has bounced off the left wall into a diagonal and moved
C30_Witness ==
    /\ dice[0].pc = "sleep"
    /\ dice[0].hit = "Left"
    /\ dice[0].was = "Left"
    /\ dice[0].direction = "DownRight"
    /\ dice[0].position = <<2, 3>>

----------------------------------------------------------------------------
(* Properties of the throw *)

\* every die of the throw has been spawned and its thread has left the roll
\* loop and ended, which drops its Sender
AllDiceEnded ==
    \A i \in 1..Len(thrown.dice) :
        (i - 1) \in DOMAIN dice /\ dice[i - 1].pc = "done"

\* C7: the receive loop of throw ends only after every die thread has finished
\* its roll loop and released its Sender (throw's own Sender being dropped
\* before the loop), and once they all have, it does end.
C7_DrainEnds ==
    /\ [](main = "drained" => (AllDiceEnded /\ ~tx /\ chan = <<>>))
    /\ [](main = "drain" => ~tx)
    /\ (AllDiceEnded ~> main = "drained")

\* the loop has ended after two dice sent all of their events
C7_Witness ==
    /\ main = "drained"
    /\ Len(thrown.dice) = 2
    /\ AllDiceEnded

\* C8: when the receive loop has ended, the position and the face the table
\* records for every die are those of the last event the die sent (which are
\* the position and the face the die stopped with), under every interleaving.
C8_LastWriteWins ==
    main = "drained" =>
        \A i \in 1..Len(thrown.dice) :
            /\ (i - 1) \in DOMAIN table.tracker \cap DOMAIN table.results
            /\ table.tracker[i - 1] = dice[i - 1].position
            /\ table.results[i - 1] = dice[i - 1].face_up

\* whether p is more than one move away from every spawn point
FarFromSpawn(p) ==
    \A q \in spawn_point(term) :
        \/ p[1] - q[1] \notin {-1, 0, 1}
        \/ p[2] - q[2] \notin {-1, 0, 1}

\* the loop has ended after two dice rolled, one of which sent at least two
\* events (its recorded position is two moves from where it spawned)
C8_Witness ==
    /\ main = "drained"
    /\ Len(thrown.dice) = 2
    /\ \E id \in DOMAIN table.tracker : FarFromSpawn(table.tracker[id])

\* C16: the dice spawned so far have the ids 0..n-1 and the kinds of the first
\* n entries of the dice list, which the table logs under the same ids; after
\* the spawn loop that is the whole list. A step adds at most the next id,
\* with a new thread, never changes the kind an id has, runs one thread at
\* most, and an event sent carries the id of the thread that sent it and a
\* face of that id's kind. In a Percentile roll id 0 is the tens die and id 1
\* the ones die.
C16_IdsInSpawnOrder ==
    /\ [](/\ DOMAIN dice = 0..(Cardinality(DOMAIN dice) - 1)
          /\ Cardinality(DOMAIN dice) <= Len(thrown.dice)
          /\ main # "spawn" => Cardinality(DOMAIN dice) = Len(thrown.dice)
          /\ DOMAIN table.kinds = DOMAIN dice
          /\ DOMAIN table.results \subseteq DOMAIN dice
          /\ \A id \in DOMAIN dice :
                /\ dice[id].kind = thrown.dice[id + 1]
                /\ table.kinds[id] = thrown.dice[id + 1]
          /\ \A k \in 1..Len(chan) :
                /\ chan[k][1] \in DOMAIN dice
                /\ chan[k][2] \in ValueSet(thrown.dice[chan[k][1] + 1])
          /\ thrown.code = "Percentile" =>
                /\ 0 \in DOMAIN dice => dice[0].kind = "PercentTens"
                /\ 1 \in DOMAIN dice => dice[1].kind = "PercentOnes"
                /\ DOMAIN dice \subseteq {0, 1})
    /\ [][/\ DOMAIN dice \subseteq DOMAIN dice'
          /\ \A id \in DOMAIN dice : dice'[id].kind = dice[id].kind
          /\ \A id \in DOMAIN dice' \ DOMAIN dice :
                id = Cardinality(DOMAIN dice) /\ dice'[id].pc = "new"
          /\ Cardinality({id \in DOMAIN dice : dice'[id] # dice[id]}) <= 1
          /\ Len(chan') > Len(chan) =>
                \E id \in DOMAIN dice :
                    /\ dice'[id] # dice[id]
                    /\ chan'[Len(chan')][1] = id
                    /\ chan'[Len(chan')][2] = dice'[id].face_up
         ]_vars

\* a Percentile throw has ended with the tens under id 0 and the ones under id 1
C16_Witness ==
    /\ main = "drained"
    /\ thrown.code = "Percentile"
    /\ table.kinds = (0 :> "PercentTens" @@ 1 :> "PercentOnes")
    /\ table.results[0] \in ValueSet("PercentTens") \ {0}
    /\ table.results[1] \in ValueSet("PercentOnes") \ {0}

\* what the table has recorded of the dice
Kept(t) == <<t.kinds, t.tracker, t.results>>

\* C19: no step of throw removes an id from the positions or the results of
\* the table; from the end of the receive loop on no step changes the kinds,
\* the positions or the results, and neither do redraw (with crit_colour),
\* show_math, print_error or do_math applied to the table; so the one-liner
\* and the graph the table resolves to are the same after every step,
\* whatever was toggled before.
C19_ReadOnlyAfterDrain ==
    [][/\ DOMAIN table.tracker \subseteq DOMAIN table'.tracker
       /\ DOMAIN table.results \subseteq DOMAIN table'.results
       /\ main \notin {"spawn", "drain"} =>
             /\ Kept(table') = Kept(table)
             /\ do_math(table') = do_math(table)
             /\ \A before \in {show_math(table, term')}, after \in {show_math(table', term')} :
                   /\ after.result = before.result
                   /\ after.result = "Ok" => after.table.surface = before.table.surface
                   /\ Kept(before.table) = Kept(table)
             /\ \A drawn \in {redraw(table)} : drawn # None => Kept(drawn[1]) = Kept(table)
             /\ Kept(print_error(table)) = Kept(table)
      ]_vars

\* a roll of two dice has been resolved for the return after its graph was
\* shown and toggled away
C19_Witness ==
    /\ main = "returned"
    /\ returned # None
    /\ Cardinality(DOMAIN table.results) = 2
    /\ ~table.graph_on
    /\ ~table.error_on
    /\ table.surface.view = "dice"

\* the die that the die d becomes by one pass of the loop body in a terminal
\* of size t with the draws v, redirect and option
StepWith(d, t, v, redirect, option) ==
    LET checked == detect_wall([d EXCEPT !.face_up = flip(d.kind, v)], t, redirect, option)
    IN  IF move_overflows(checked) THEN [checked EXCEPT !.pc = "panicked"]
        ELSE [movement(checked) EXCEPT !.pc = "sleep"]

\* whether the die d, by itself in a terminal of size t, can become e in one step
OwnSuccessor(d, e, t) ==
    CASE d.pc = "new" ->
            /\ e.kind = d.kind
            /\ e.face_up \in {flip(d.kind, v) : v \in 1..value(d.kind)}
            /\ e.position \in spawn_point(t)
            /\ e.speed \in InitSpeeds \cup ShortSpeeds(d.kind)
            /\ e.direction \in RandomDirection
            /\ e.pc = "roll"
      [] d.pc = "roll" /\ d.speed > STOP_SPEED ->
            \E v \in 1..value(d.kind), redirect \in BOOLEAN, option \in BOOLEAN :
                e = StepWith(d, t, v, redirect, option)
      [] d.pc = "roll" /\ d.speed <= STOP_SPEED -> e = [d EXCEPT !.pc = "done"]
      [] d.pc = "sleep" -> Fields(e) = Fields(d) /\ e.pc = "friction"
      [] d.pc = "friction" ->
            Fields(e) = Fields([d EXCEPT !.speed = d.speed + acceleration(d.kind)])
                /\ e.pc = "roll"
      [] OTHER -> FALSE

\* C22: a step of a die in a throw is a step the die can take by itself from
\* its own state, its draws and the terminal size, which no step changes; it
\* leaves every other die as it was, and a step of another die or of throw
\* leaves this die as it was; the events of a die are sent by its own steps
\* and carry its own face and position; and whatever the other dice and throw
\* are doing, the die can take its step, with each face it can draw.
C22_DiceIndependent ==
    /\ [][/\ term' = term
          /\ \A id \in DOMAIN dice :
                /\ dice'[id] # dice[id] =>
                      /\ OwnSuccessor(dice[id], dice'[id], term)
                      /\ \A other \in DOMAIN dice \ {id} : dice'[other] = dice[other]
                      /\ (dice[id].pc = "roll" /\ dice'[id].pc = "sleep") =>
                            chan' = Append(chan, <<id, dice'[id].face_up, dice'[id].position>>)
                      /\ ~(dice[id].pc = "roll" /\ dice'[id].pc = "sleep") => chan' = chan
                /\ (dice'[id] = dice[id] /\ Len(chan') > Len(chan)) =>
                      chan'[Len(chan')][1] # id
         ]_vars
    /\ [](\A id \in DOMAIN dice :
            /\ dice[id].pc \notin {"done", "panicked"} => ENABLED DieThread(id)
            /\ (dice[id].pc = "roll" /\ dice[id].speed > STOP_SPEED) =>
                  \A v \in gen_range(dice[id].kind) :
                      ENABLED (DieThread(id) /\ dice'[id].face_up = flip(dice[id].kind, v)))

\* of two dice, one has left its loop while the other has not yet started
C22_Witness ==
    /\ DOMAIN dice = {0, 1}
    /\ dice[0].pc = "new"
    /\ dice[1].pc = "done"
    /\ Len(chan) >= 2

\* the number of dice the commands of a roll ask for
RECURSIVE Asked(_)
Asked(commands) ==
    IF commands = <<>> THEN 0 ELSE Head(commands).coefficient + Asked(Tail(commands))

\* the ids of the dice of the throw
Ids == 0..(Len(thrown.dice) - 1)

\* C27: a die that has left its loop has sent at least one event, which is
\* in the channel or has been recorded by the table; once the
\* receive loop has ended the tracker and the results each hold an entry for
\* exactly the ids 0..N-1 of the N dice thrown, so that a Normal roll has as
\* many results as its commands ask for and every d20 has a position and a
\* result; and neither the redraw with crit_colour nor the resolution that
\* follows panics.
C27_EveryDieReports ==
    /\ \A id \in DOMAIN dice :
          dice[id].pc = "done" =>
              \/ \E i \in 1..Len(chan) : chan[i][1] = id
              \/ id \in DOMAIN table.tracker /\ id \in DOMAIN table.results
    /\ main \notin {"spawn", "drain"} =>
          /\ DOMAIN dice = Ids
          /\ \A id \in Ids : dice[id].pc = "done"
          /\ DOMAIN table.tracker = Ids
          /\ DOMAIN table.results = Ids
          /\ thrown.code = "Normal" => Len(InIdOrder(table.results)) = Asked(thrown.commands)
          /\ \A id \in DOMAIN table.kinds :
                table.kinds[id] = "Twenty" =>
                    id \in DOMAIN table.tracker /\ id \in DOMAIN table.results
    /\ main # "panicked"

\* a d20 that stopped on 20 after one step has been drawn and resolved
C27_Witness ==
    /\ main = "returned"
    /\ thrown.dice = <<"Twenty">>
    /\ dice[0].speed = 0
    /\ table.results = (0 :> 20)
    /\ returned # None

\* C28: whenever the thread of a die exists its kind is logged in the table,
\* so every event in the channel and every event received carries an id whose
\* kind is known, and Table::update never panics.
C28_KindKnown ==
    /\ \A id \in DOMAIN dice :
          id \in DOMAIN table.kinds /\ table.kinds[id] = dice[id].kind
    /\ \A i \in 1..Len(chan) : chan[i][1] \in DOMAIN table.kinds
    /\ DOMAIN table.results \subseteq DOMAIN table.kinds
    /\ main # "panicked"

\* the first die has sent an event while throw is still spawning the second
C28_Witness ==
    /\ main = "spawn"
    /\ Len(thrown.dice) = 2
    /\ DOMAIN dice = {0}
    /\ Len(chan) = 1
    /\ chan[1][1] = 0

\* C36: from the first event received to the return of throw, the positions
\* and the results are recorded for the same ids, all of them ids whose kind
\* was logged; so whenever throw is about to call redraw, after the drain or
\* on a key, redraw finds the position and the kind of every result, and
\* throw never panics.
C36_SameKeys ==
    /\ DOMAIN table.tracker = DOMAIN table.results
    /\ DOMAIN table.results \subseteq DOMAIN table.kinds
    /\ DOMAIN table.kinds \subseteq 0..(Len(thrown.dice) - 1)
    /\ main \in {"drained", "keys"} => redraw(table) # None
    /\ main # "panicked"

\* in the middle of the drain of two dice: one die is recorded, the event of
\* the other waits in the channel
C36_Witness ==
    /\ main = "drain"
    /\ DOMAIN table.kinds = {0, 1}
    /\ DOMAIN table.tracker = {1}
    /\ DOMAIN table.results = {1}
    /\ chan # <<>>
    /\ Head(chan)[1] = 0

----------------------------------------------------------------------------
(* Properties of the resolution of a finished roll *)

\* the number that ends a one-liner
final_number(text) == parse_i16(After(text, " "))

\* the final faces of the dice spawned for command i of the roll: its
\* coefficient consecutive ids, after those of the commands before it
FacesOf(i) ==
    LET before == Sum([j \in 1..(i - 1) |-> thrown.commands[j].coefficient])
    IN  [k \in 1..thrown.commands[i].coefficient |-> dice[before + k - 1].face_up]

Subtotal(i) == Sum(FacesOf(i)) + thrown.commands[i].modifier

\* C1: in a Normal roll the graph gives each command the sum of the final
\* faces of its own dice plus its modifier, and the grand total, which is
\* what full_sum returns, is the sum of these subtotals
C1_NormalTotals ==
    (thrown.code = "Normal" /\ FromGenerateDice(thrown) /\ table.surface.view = "graph") =>
        /\ Len(table.surface.rows) = Len(thrown.commands)
        /\ \A i \in 1..Len(thrown.commands) :
              /\ table.surface.rows[i].totals.total = Sum(FacesOf(i))
              /\ table.surface.rows[i].totals.sum = Subtotal(i)
        /\ table.surface.final = full_sum(table)
        /\ full_sum(table) =
              Some(Sum([i \in 1..Len(thrown.commands) |-> table.surface.rows[i].totals.sum]))

\* two commands, the first of two dice, with modifiers, on the graph
C1_Witness ==
    /\ thrown.code = "Normal"
    /\ table.surface.view = "graph"
    /\ Len(thrown.commands) = 2
    /\ thrown.commands[1].coefficient = 2
    /\ thrown.modifiers = <<3, -2>>
    /\ dice[0].face_up # dice[2].face_up
    /\ table.surface.final = Some(Subtotal(1) + Subtotal(2))

\* whether a face of a command's dice is a 20, or a 1, on a d20
Natural(i, face) ==
    \E j \in 1..Len(FacesOf(i)) :
        thrown.commands[i].kind = "Twenty" /\ FacesOf(i)[j] = face

\* C20: in a Normal roll the graph shows a result in green exactly when it is
\* a 20 on a die of a d20 command and in red exactly when it is a 1 on one,
\* and plain otherwise, always with the digits of the face; the one-liner of
\* a single command carries the same colours (and the one of several
\* commands none); the subtotals and the total are the sums of the faces and
\* the modifiers whatever is coloured.
C20_CritFlag ==
    (thrown.code = "Normal" /\ FromGenerateDice(thrown)) =>
        /\ table.surface.view = "graph" =>
              /\ \A i \in 1..Len(thrown.commands) :
                    /\ Len(table.surface.rows[i].results) = Len(FacesOf(i))
                    /\ \A j \in 1..Len(FacesOf(i)) :
                          \A shown \in {table.surface.rows[i].results[j]} :
                              /\ shown[1] = "Green" <=>
                                    (thrown.commands[i].kind = "Twenty" /\ FacesOf(i)[j] = 20)
                              /\ shown[1] = "Red" <=>
                                    (thrown.commands[i].kind = "Twenty" /\ FacesOf(i)[j] = 1)
                              /\ shown[1] \in {"Green", "Red"} <=> shown[Len(shown)] = "Reset"
                              /\ SelectSeq(shown, IsDigit) = Decimal(FacesOf(i)[j])
                              /\ Len(shown) = Len(Decimal(FacesOf(i)[j]))
                                                 + (IF shown[1] \in {"Green", "Red"} THEN 2 ELSE 0)
                    /\ table.surface.rows[i].totals.sum = Subtotal(i)
              /\ table.surface.final
                    = Some(Sum([i \in 1..Len(thrown.commands) |-> Subtotal(i)]))
        /\ main = "returned" =>
              /\ Contains(returned[1], "Green") <=>
                    (Len(thrown.commands) = 1 /\ Natural(1, 20))
              /\ Contains(returned[1], "Red") <=>
                    (Len(thrown.commands) = 1 /\ Natural(1, 1))
              /\ final_number(returned[1])
                    = Some(Sum([i \in 1..Len(thrown.commands) |-> Subtotal(i)]))

\* the graph of a d6 that fell on 1, shown plain, and a d20 that fell on 20,
\* shown green
C20_Witness ==
    /\ thrown.code = "Normal"
    /\ table.surface.view = "graph"
    /\ Len(thrown.commands) = 2
    /\ thrown.commands[1].kind = "Six"
    /\ thrown.commands[2].kind = "Twenty"
    /\ FacesOf(1)[1] = 1
    /\ FacesOf(2)[1] = 20
    /\ table.surface.rows[1].results[1] = <<"1">>
    /\ table.surface.rows[2].results[1] = <<"Green", "2", "0", "Reset">>

\* the faces of the dice with the ids from..to, each after " + "
RECURSIVE Added(_, _)
Added(from, to) ==
    IF from > to THEN <<>>
    ELSE <<" ", "+", " ">> \o Decimal(dice[from].face_up) \o Added(from + 1, to)

\* " + m" or " - |m|" of the modifier of the first command
ModifierTerm ==
    IF thrown.modifiers[1] >= 0 THEN <<" ", "+", " ">> \o Decimal(thrown.modifiers[1])
    ELSE <<" ", "-", " ">> \o Decimal(0 - thrown.modifiers[1])

\* the sum of the final faces of all the dice
AllFaces == Sum([i \in 1..Len(thrown.dice) |-> dice[i - 1].face_up])

\* C21: the one-liner of a Normal roll of one command lists the faces in id
\* order, all of them when the command rolled at most 6 dice, the first 5 and
\* then one " + ..." when it rolled more, before " + m = total + m = sum";
\* the one-liner of a roll of several commands is the grand total alone.
C21_OneLinerPreview ==
    (main = "returned" /\ thrown.code = "Normal" /\ FromGenerateDice(thrown)) =>
        /\ Len(thrown.commands) = 1 =>
              returned[1] =
                  Decimal(dice[0].face_up)
                  \o (IF Len(thrown.dice) <= 6 THEN Added(1, Len(thrown.dice) - 1)
                      ELSE Added(1, 4) \o <<" ", "+", " ", ".", ".", ".">>)
                  \o ModifierTerm \o <<" ", "=", " ">>
                  \o Decimal(AllFaces) \o ModifierTerm \o <<" ", "=", " ">>
                  \o Signed(AllFaces + thrown.modifiers[1])
        /\ Len(thrown.commands) > 1 =>
              returned[1] = Signed(AllFaces + Sum(thrown.modifiers))

\* the one-liner of seven dice, the sixth unlike the fifth, ends its list
\* with the ellipsis
C21_Witness ==
    /\ main = "returned"
    /\ Len(thrown.commands) = 1
    /\ Len(thrown.dice) = 7
    /\ dice[4].face_up # dice[5].face_up
    /\ Contains(returned[1], ".")

\* the face a roll with advantage or disadvantage selects of its two dice
Best ==
    IF thrown.code = "Advantage"
    THEN IF dice[0].face_up >= dice[1].face_up THEN dice[0].face_up ELSE dice[1].face_up
    ELSE IF dice[0].face_up <= dice[1].face_up THEN dice[0].face_up ELSE dice[1].face_up

\* C2: with two recorded faces the outcome of a roll with advantage is the
\* higher face plus the modifier, that of a roll with disadvantage the lower
\* face plus the modifier, in the one-liner and on the graph
C2_AdvantageOutcome ==
    (thrown.code \in {"Advantage", "Disadvantage"} /\ Cardinality(DOMAIN table.results) = 2) =>
        /\ main = "returned" =>
              final_number(returned[1]) = Some(Best + thrown.modifiers[1])
        /\ table.surface.view = "graph" =>
              /\ table.surface.rows[1].totals.total = Best
              /\ table.surface.rows[1].totals.sum = Best + thrown.modifiers[1]

\* an advantage roll returned with the higher face on the second die
C2_Witness ==
    /\ thrown.code = "Advantage"
    /\ main = "returned"
    /\ dice[0].face_up = 19
    /\ dice[1].face_up = 20
    /\ thrown.modifiers = <<3>>
    /\ final_number(returned[1]) = Some(23)

\* the sum of a Percentile roll before the modifier
PercentExpected ==
    IF dice[0].face_up = 0 /\ dice[1].face_up = 0 THEN 100
    ELSE dice[0].face_up + dice[1].face_up

\* C3: the sum of a Percentile roll is tens + ones, 100 for two zeros; it is
\* in 1..100, 100 only for two zeros, and the outcome is the sum plus the
\* modifier
C3_PercentileSum ==
    (thrown.code = "Percentile" /\ Cardinality(DOMAIN table.results) = 2) =>
        /\ dice[0].face_up \in {10 * n : n \in 0..9}
        /\ dice[1].face_up \in 0..9
        /\ percent_sum(table) = Some(PercentExpected)
        /\ PercentExpected \in 1..100
        /\ PercentExpected = 100 => (dice[0].face_up = 0 /\ dice[1].face_up = 0)
        /\ main = "returned" =>
              final_number(returned[1]) = Some(PercentExpected + thrown.modifiers[1])
        /\ table.surface.view = "graph" =>
              /\ table.surface.rows[1].totals.total = PercentExpected
              /\ table.surface.rows[1].totals.sum = PercentExpected + thrown.modifiers[1]

\* two zeros returned as 100 less the modifier
C3_Witness ==
    /\ thrown.code = "Percentile"
    /\ main = "returned"
    /\ dice[0].face_up = 0
    /\ dice[1].face_up = 0
    /\ thrown.modifiers = <<-2>>
    /\ final_number(returned[1]) = Some(98)

\* the final total of a graph: the grand total under the rows of a Normal
\* roll, the sum of the one row of the other rolls
GraphFinal(surface) ==
    IF surface.label = "Normal roll" THEN surface.final
    ELSE Some(surface.rows[1].totals.sum)

\* C32: whenever show_math draws a graph of the table and do_math returns a
\* one-liner of the same table, the final total of the graph is the number
\* that ends the one-liner, in every mode; and the one-liner throw returns
\* while the graph is displayed ends with the final total displayed.
C32_SameFinal ==
    /\ \A shown \in {show_math(table, term)}, one_liner \in {do_math(table)} :
          (shown.result = "Ok" /\ one_liner # None) =>
              final_number(one_liner[1]) = GraphFinal(shown.table.surface)
    /\ (main = "returned" /\ table.surface.view = "graph") =>
          final_number(returned[1]) = GraphFinal(table.surface)

\* a roll with disadvantage and the modifier -2 has been returned from its graph
C32_Witness ==
    /\ main = "returned"
    /\ table.surface.view = "graph"
    /\ thrown.code = "Disadvantage"
    /\ thrown.modifiers = <<-2>>
    /\ dice[0].face_up = 1
    /\ final_number(returned[1]) = Some(-1)

\* what a 't' that returns leaves: the dice when the graph was on, else the
\* graph when show_math succeeds and the error when it fails
Toggled(before, after, size) ==
    IF before.graph_on
    THEN ~after.graph_on /\ ~after.error_on /\ after.surface.view = "dice"
    ELSE \A math \in {show_math(before, size)} :
            /\ after.graph_on # after.error_on
            /\ after.graph_on <=> math.result = "Ok"
            /\ after.error_on <=> math.result = "Err"
            /\ after.surface.view = IF after.graph_on THEN "graph" ELSE "error"

\* C33: graph_on and error_on are never both true; a 't' pressed while the
\* graph is on leaves the dice with both flags false, and a 't' pressed
\* otherwise, or the first display of the results, leaves exactly one of them
\* true: graph_on when show_math succeeded, error_on when it failed.
C33_OneView ==
    /\ [](~(table.graph_on /\ table.error_on))
    /\ [][(KeyToggle /\ main' = "keys") => Toggled(table, table', term)]_vars
    /\ [][(ShowResults /\ main' = "keys") => Toggled(table, table', term)]_vars

\* 't' has brought the dice of a Percentile roll back over its graph, in a
\* window that has since become too small for the graph
C33_Witness ==
    /\ main = "keys"
    /\ ~table.graph_on
    /\ ~table.error_on
    /\ table.surface.view = "dice"
    /\ thrown.code = "Percentile"
    /\ term = <<35, 9>>

\* the rows the graph of a table needs
RowsNeeded(t) == Cardinality(DOMAIN t.results) + Len(t.command_log) + 7

\* the window sizes on both sides of what the graph of a table needs
SizesAround(t) == {<<cols, rows>> : cols \in {35, 36}, rows \in {RowsNeeded(t) - 1, RowsNeeded(t)}}

\* C34: while throw waits for a key, show_math returns the error exactly when
\* the window has fewer rows than results + commands + 7 or fewer than 36
\* columns, in the window of the state and in the windows around the size
\* needed, and it then leaves the whole table, with its screen, its flags and
\* its results, as it was; the first display of the results then changes
\* only what print_error changes.
C34_TooSmall ==
    /\ [](main \in {"paused", "keys"} =>
             \A size \in SizesAround(table) \cup {term} :
             \A math \in {show_math(table, size)} :
                /\ math.result = "Err" <=>
                      (size[2] < RowsNeeded(table) \/ size[1] < 36)
                /\ math.result = "Err" =>
                      /\ math.table = table
                      /\ math.table.surface = table.surface
                      /\ math.table.graph_on = table.graph_on
                      /\ math.table.error_on = table.error_on
                      /\ math.table.results = table.results)
    /\ [][(ShowResults /\ (term[2] < RowsNeeded(table) \/ term[1] < 36)) =>
             /\ main' = "keys"
             /\ table' = print_error(table)
             /\ table'.results = table.results]_vars

\* the error is on the screen of a window of 35 columns with rows enough for
\* the graph of one result of one command
C34_Witness ==
    /\ main = "keys"
    /\ table.error_on
    /\ table.surface.view = "error"
    /\ term = <<35, 9>>
    /\ RowsNeeded(table) = 9
    /\ show_math(table, <<36, 9>>).result = "Ok"

\* whether a face written on the terminal lies within its columns
FitsColumns(face, size) ==
    /\ face.col >= 1
    /\ face.col + Len(face.text) - 1 <= size[1]

\* the ids of the faces a step writes on the terminal
DrawnBy(before, after) ==
    {id \in DOMAIN on_screen(after.surface) :
        \/ id \notin DOMAIN on_screen(before.surface)
        \/ on_screen(before.surface)[id] # on_screen(after.surface)[id]}

\* C35: every face a step of throw writes among the dice lies within the
\* columns of the terminal; it is written one column to the left of the
\* recorded position when that position is the last column and the face has
\* two digits or is that of a PercentTens die, and at the recorded position
\* otherwise; the recorded position is the one of the event; and a second
\* zero is only written for a PercentTens die.
C35_FacesFit ==
    /\ [][\A id \in DrawnBy(table, table') :
           \A face \in {on_screen(table'.surface)[id]} :
              /\ FitsColumns(face, term)
              /\ face.col =
                    IF /\ table'.tracker[id][1] = term[1]
                       /\ (table'.results[id] >= 10 \/ table'.kinds[id] = "PercentTens")
                    THEN table'.tracker[id][1] - 1
                    ELSE table'.tracker[id][1]
              /\ face.text # Decimal(table'.results[id]) =>
                    /\ table'.kinds[id] = "PercentTens"
                    /\ face.text = <<"0", "0">>]_vars
    /\ [][(Receive /\ main' = "drain") =>
             table'.tracker[Head(chan)[1]] = Head(chan)[3]]_vars
    /\ [][(main = "drained" \/ main = "keys") => table'.tracker = table.tracker]_vars

\* C4: a special roll with more than two recorded results is never resolved
\* and never makes the resolver panic: no graph of it is drawn, no one-liner
\* of it is returned, and throw goes on
C4_ResolverReports ==
    (thrown.code # "Normal" /\ Cardinality(DOMAIN table.results) > 2) =>
        /\ main # "panicked"
        /\ main # "returned"
        /\ table.surface.view # "graph"

----------------------------------------------------------------------------
(* Properties of the command line *)

\* what a typed command asks for
Coefficient(c) == IF c.coefficient = None THEN 1 ELSE c.coefficient[1]
Modifier(c) == IF c.modifier = None THEN 0 ELSE c.modifier[1]
Special(c) == c.mode # <<>> \/ c.die.kind = "PercentTens"

\* the number of dice the typed commands before the i-th ask for
RECURSIVE DiceBefore(_, _)
DiceBefore(cs, i) == IF i = 1 THEN 0 ELSE DiceBefore(cs, i - 1) + Coefficient(cs[i - 1])

C17_OneMode ==
    generated_dice # None =>
        LET cs == input_line.typed
            r == generated_dice[1]
        IN  /\ (r.ok /\ \E i \in 1..Len(cs) : Special(cs[i])) =>
                  /\ Len(cs) = 1
                  /\ Coefficient(cs[1]) = 1
                  /\ r.code # "Normal"
            /\ (\E i \in 1..Len(cs) : Special(cs[i]) /\ (Len(cs) # 1 \/ Coefficient(cs[i]) # 1)) =>
                  /\ ~r.ok
                  /\ DOMAIN r = {"ok", "error"}
                  /\ r.error # ""
                  /\ main = "prompt"
            /\ (r.ok /\ \A i \in 1..Len(cs) : ~Special(cs[i])) => r.code = "Normal"
            /\ (/\ Len(cs) = 1 /\ Special(cs[1]) /\ Coefficient(cs[1]) = 1
                /\ cs[1].die.kind # "None"
                /\ Modifier(cs[1]) \in (0 - MODIFIER_LIMIT)..MODIFIER_LIMIT) =>
                  r.ok /\ main = "throw"

\* a plain command followed by an advantage command has been rejected
C17_Witness ==
    /\ generated_dice # None
    /\ Len(input_line.typed) = 2
    /\ input_line.typed[1].mode = <<>>
    /\ input_line.typed[1].die.kind = "Six"
    /\ input_line.typed[2].mode = ADV_PREFIX
    /\ input_line.typed[2].coefficient = None
    /\ ~generated_dice[1].ok
    /\ main = "prompt"

\* C25: a line with a command whose coefficient is 0 or above 99, or whose
\* modifier is above 99 or below -99, or whose commands ask for more than 99
\* dice in all, is rejected with a message and throw is not called; an
\* accepted roll has 1 to 99 dice, and each of its commands a coefficient of
\* 1 to 99 and a modifier of -99 to 99.
C25_Limits ==
    generated_dice # None =>
        LET cs == input_line.typed
            r == generated_dice[1]
        IN  /\ (\/ \E i \in 1..Len(cs) :
                       \/ Coefficient(cs[i]) \notin 1..COEFFICIENT_LIMIT
                       \/ Modifier(cs[i]) \notin (0 - MODIFIER_LIMIT)..MODIFIER_LIMIT
                 \/ DiceBefore(cs, Len(cs) + 1) > DIE_LIMIT) =>
                  /\ ~r.ok
                  /\ r.error # ""
                  /\ main = "prompt"
            /\ r.ok =>
                  /\ Len(r.dice) \in 1..DIE_LIMIT
                  /\ Len(r.modifiers) = Len(cs)
                  /\ \A i \in 1..Len(cs) :
                        /\ Coefficient(cs[i]) \in 1..COEFFICIENT_LIMIT
                        /\ r.modifiers[i] = Modifier(cs[i])
                        /\ r.modifiers[i] \in (0 - MODIFIER_LIMIT)..MODIFIER_LIMIT

\* a roll of 99 dice with the modifier -99 has been accepted
C25_Witness ==
    /\ main = "throw"
    /\ Len(input_line.typed) = 1
    /\ generated_dice[1].ok
    /\ Len(generated_dice[1].dice) = DIE_LIMIT
    /\ generated_dice[1].modifiers = <<0 - MODIFIER_LIMIT>>

\* C26: a line with an advantage or disadvantage command on a d100 or d% is
\* rejected with "You cannot roll advantage/disadvantage on a d100" and is
\* never accepted as a roll.
C26_NoAdvantageOnPercent ==
    generated_dice # None =>
        LET cs == input_line.typed
            r == generated_dice[1]
        IN  (\E i \in 1..Len(cs) : cs[i].mode # <<>> /\ cs[i].die.kind = "PercentTens") =>
                /\ ~r.ok
                /\ r.error = "You cannot roll advantage/disadvantage on a d100"

\* the kinds get_kind can return
ParsedKinds == D \ {"PercentOnes"}

\* C31: the command string logged for an accepted command, parsed again by
\* get_command_values, gives the coefficient and the kind of that command and
\* the modifier the roll holds for it, and logging these values again gives
\* the same string; the same holds for every kind get_kind can return, with
\* the least and the greatest coefficient and modifier validate accepts.
C31_LogRoundTrip ==
    /\ (generated_dice # None /\ generated_dice[1].ok) =>
          \A i \in 1..Len(generated_dice[1].command_log) :
          \A again \in {get_command_values(generated_dice[1].command_log[i])} :
              /\ again # None
              /\ again[1].coefficient = Coefficient(input_line.typed[i])
              /\ again[1].kind = input_line.typed[i].die.kind
              /\ again[1].modifier = generated_dice[1].modifiers[i]
              /\ log_command(again[1].coefficient, again[1].kind, again[1].modifier)
                    = generated_dice[1].command_log[i]
    /\ \A kind \in ParsedKinds, coefficient \in {1, COEFFICIENT_LIMIT},
          modifier \in {0 - MODIFIER_LIMIT, 0, MODIFIER_LIMIT} :
          get_command_values(log_command(coefficient, kind, modifier))
              = Some([coefficient |-> coefficient, kind |-> kind, modifier |-> modifier])

\* the line "d%+3" has been accepted and logged as "1d100+3"
C31_Witness ==
    /\ main = "throw"
    /\ Len(input_line.typed) = 1
    /\ input_line.typed[1].die.text = <<"%">>
    /\ generated_dice[1].ok
    /\ generated_dice[1].command_log = <<<<"1", "d", "1", "0", "0", "+", "3">>>>

====
